---- MODULE Spec2Model ----
(***************************************************************************)
(* A model of the session manager of "temp /sessionManager.js": the        *)
(* Semaphore class, the SessionManager registry with start / stop /        *)
(* logout, the connection.update handler with its reconnect timers, and    *)
(* the asynchronous writes of the id list.                                 *)
(*                                                                         *)
(* It also models the DBManager keyed store of "lib/client.js".            *)
(*                                                                         *)
(* The specifications share the variables:                                 *)
(*   SemSpec      the Semaphore class driven by arbitrary callers,         *)
(*   ClassifySpec the close classification applied to drawn close reasons, *)
(*   Spec         the SessionManager,                                      *)
(*   RegSpec      register calls and the writes of the id list,            *)
(*   LoadSpec     the constructor's load of the id list and register calls,*)
(*   AllSpec      one startAll() call,                                     *)
(*   StoreSpec    the keyed store in memory (its files are not modelled),  *)
(*   EmptyStoreSpec the keyed store in memory, constructed without data,   *)
(*   FlushSpec    the keyed store and its snapshot file.                   *)
(* Each leaves the variables of the others at their initial values.        *)
(***************************************************************************)
EXTENDS Integers, Sequences, FiniteSets, TLC

VARIABLES
  sem,        \* the Semaphore: limit, active, queue, and the woken waiters not yet resumed
  cpc,        \* SemSpec: each caller's position (out, waiting, in)
  suspOrder,  \* SemSpec history: callers in the order they were suspended in acquire()
  wakeOrder,  \* SemSpec history: callers in the order release() woke them
  order,      \* this.sessions: the keys of the Map in insertion order
  ref,        \* this.sessions: key -> entry object (0 when the key is absent)
  entries,    \* the entry objects ever created, by reference (objects outlive their key)
  calls,      \* the start() calls in flight, by slot
  conns,      \* the connections the factory has produced: session id and state
  timers,     \* the reconnect timers that are pending
  closing,    \* permanent close handlers suspended in their await of fs rm
  logouts,    \* the logout() calls in flight, by slot
  writes,     \* the writeFile calls of _persistMeta that have not settled
  metaFile,   \* the content of sessions.json
  loadPending,\* whether the constructor's _loadMeta has still to read the file
  last,       \* what the last step returned to its caller and emitted
  gone,       \* history: the ids a permanent close removed and no caller registered since
  cin,        \* ClassifySpec: the drawn close reason and entry
  cout,       \* ClassifySpec: the branch the handler takes for cin
  sall,       \* the startAll() call: whether it was made, the keys it read, how it ended
  store,      \* DBManager.store: the owners in Map order, each with its keys in Map order
  opts,       \* DBManager options: maxUsers, maxKeysPerUser (0: not set),
              \* returnDirectRef, atomicWrite
  recency,    \* history: the owners from the least to the most recently touched
  born,       \* history: for each owner its keys from the earliest to the latest inserted
  sres,       \* what the last store operation returned, evicted and emitted
  dirty,      \* DBManager._dirty
  writeTimer, \* DBManager._writeTimer: the timer it refers to (0: none), fired or not
  pending,    \* the setTimeout timers that have not fired and were not cleared
  file,       \* the snapshot file at filePath
  tmpFile,    \* the file at filePath + ".tmp"
  held,       \* the value the caller obtained from its last get and still holds
  crashed,    \* whether the process was interrupted or died of an uncaught exception
  flushed,    \* history: the completed writes of the snapshot file since the last change
  burst       \* history: the changes made since the one that followed the last write

semVars == <<sem, cpc, suspOrder, wakeOrder>>
mgrVars == <<order, ref, entries, calls, conns, timers, closing, logouts, writes,
             metaFile, loadPending, last, gone>>
clsVars == <<cin, cout>>
allVars == <<sall>>
storeVars == <<store, opts, recency, born, sres, dirty, writeTimer, pending, file,
               tmpFile, held, crashed, flushed, burst>>
nonSemVars == <<mgrVars, clsVars, allVars, storeVars>>
\* The variables that no action of the manager changes.
otherVars == <<cpc, suspOrder, wakeOrder, cin, cout, storeVars>>
vars == <<sem, cpc, suspOrder, wakeOrder, order, ref, entries, calls, conns, timers,
          closing, logouts, writes, metaFile, loadPending, last, gone, cin, cout,
          sall, store, opts, recency, born, sres, dirty, writeTimer, pending, file,
          tmpFile, held, crashed, flushed, burst>>

\* ------------------------------------------------------------------ bounds
\* The largest limit a Semaphore is constructed with in SemSpec.
MaxLimit == 2
\* The number of callers of the Semaphore in SemSpec.
NumClients == 3
\* The number of callers suspended in acquire() over a run of SemSpec.
MaxSuspends == 3

\* The set of the elements of the sequence q.
Range(q) == {q[i] : i \in 1..Len(q)}
Max(a, b) == IF a >= b THEN a ELSE b
Min(a, b) == IF a <= b THEN a ELSE b

\* ------------------------------------------------------------ the Semaphore
\* constructor(limit). woken is not a field of the class: it holds, in
\* resolution order, the waiters whose promise release() has resolved and whose
\* continuation (line 21) has not run yet.
SemNew(limit) == [limit |-> limit, active |-> 0, queue |-> <<>>, woken |-> <<>>]

\* acquire(), line 16: the test of the fast path.
SemCanEnter(s) == s.active < s.limit

\* acquire(), line 17.
SemEnter(s) == [s EXCEPT !.active = @ + 1]

\* acquire(), line 20: the caller w is suspended on a promise pushed to the queue.
SemEnqueue(s, w) == [s EXCEPT !.queue = Append(@, w)]

\* release(), line 25, LIFO instead of FIFO.
SemShiftLast(q) == [waiter |-> q[Len(q)], rest |-> SubSeq(q, 1, Len(q) - 1)]

\* release(), line 25: this.queue.shift().
SemShift(q) == [waiter |-> Head(q), rest |-> Tail(q)]

\* release() without line 25: the slot is given back and no waiter is resolved.
SemReleaseNoWake(s) == [s EXCEPT !.active = Max(0, @ - 1)]

\* release(), lines 24-25: the resolved waiter resumes in a later microtask.
SemRelease(s) ==
  LET s1 == [s EXCEPT !.active = Max(0, @ - 1)]
  IN IF Len(s1.queue) > 0
     THEN [s1 EXCEPT !.queue = SemShift(s1.queue).rest,
                     !.woken = Append(@, SemShift(s1.queue).waiter)]
     ELSE s1

\* acquire(), line 21: the continuation of the first woken waiter.
SemResume(s) == [s EXCEPT !.active = @ + 1, !.woken = Tail(@)]

\* ------------------------------------------------- SemSpec: arbitrary callers
Clients == 1..NumClients

\* A caller calls acquire(): it enters at once or is suspended.
ClientAcquire(c) ==
  /\ cpc[c] = "out"
  /\ SemCanEnter(sem) \/ Len(suspOrder) < MaxSuspends
  /\ IF SemCanEnter(sem)
     THEN /\ sem' = SemEnter(sem)
          /\ cpc' = [cpc EXCEPT ![c] = "in"]
          /\ UNCHANGED suspOrder
     ELSE /\ sem' = SemEnqueue(sem, c)
          /\ cpc' = [cpc EXCEPT ![c] = "waiting"]
          /\ suspOrder' = Append(suspOrder, c)
  /\ UNCHANGED wakeOrder

\* The continuation of the first woken waiter runs.
ClientResume ==
  /\ Len(sem.woken) > 0
  /\ sem' = SemResume(sem)
  /\ cpc' = [cpc EXCEPT ![Head(sem.woken)] = "in"]
  /\ UNCHANGED <<suspOrder, wakeOrder>>

\* A holder calls release().
ClientRelease(c) ==
  /\ cpc[c] = "in"
  /\ sem' = SemRelease(sem)
  /\ cpc' = [cpc EXCEPT ![c] = "out"]
  /\ wakeOrder' = IF Len(sem'.woken) > Len(sem.woken)
                  THEN Append(wakeOrder, sem'.woken[Len(sem'.woken)])
                  ELSE wakeOrder
  /\ UNCHANGED suspOrder

\* ------------------------------------------------------ close classification
\* Strings are sequences of one-character strings, so that toLowerCase() and
\* includes() are computed and not assumed.
UpperChars == <<"A","B","C","D","E","F","G","H","I","J","K","L","M",
                "N","O","P","Q","R","S","T","U","V","W","X","Y","Z">>
LowerChars == <<"a","b","c","d","e","f","g","h","i","j","k","l","m",
                "n","o","p","q","r","s","t","u","v","w","x","y","z">>

\* String.prototype.toLowerCase, one character.
LowerChar(ch) ==
  IF \E i \in 1..26 : UpperChars[i] = ch
  THEN LowerChars[CHOOSE i \in 1..26 : UpperChars[i] = ch]
  ELSE ch

\* String.prototype.toLowerCase.
ToLowerCase(s) == [i \in 1..Len(s) |-> LowerChar(s[i])]

\* String.prototype.includes.
Includes(s, sub) ==
  \E i \in 0..(Len(s) - Len(sub)) : SubSeq(s, i + 1, i + Len(sub)) = sub

\* An absent status code (undefined), and an absent payload reason (undefined).
NoCode == 0
NoReason == <<>>

\* String(x) of a payload reason: String(undefined) is "undefined".
StrOfReason(p) ==
  IF p = NoReason THEN <<"u","n","d","e","f","i","n","e","d">> ELSE p

\* String(x) of the status codes that are drawn (none contains a letter).
StrOfCode(n) ==
  CASE n = 401 -> <<"4","0","1">>
    [] n = 403 -> <<"4","0","3">>
    [] n = 428 -> <<"4","2","8">>
    [] n = 500 -> <<"5","0","0">>
    [] OTHER -> <<"n","u","l","l">>

\* Line 211: statusCode || payload.reason || null, then String() of it (line 218).
StrOfDerivedReason(r) ==
  IF r.statusCode # NoCode THEN StrOfCode(r.statusCode)
  ELSE IF r.payloadReason # NoReason THEN r.payloadReason
  ELSE <<"n","u","l","l">>

StrLoggedOut == <<"l","o","g","g","e","d","O","u","t">>
StrLogout == <<"l","o","g","o","u","t">>
StrLoggedoutLower == <<"l","o","g","g","e","d","o","u","t">>
StrForbidden == <<"f","o","r","b","i","d","d","e","n">>

\* Line 218 without the lower-casing of the payload reason.
IsLoggedOutCaseSensitive(r) ==
  \/ r.statusCode = 401
  \/ r.payloadReason = StrLoggedOut
  \/ r.payloadReason = StrLogout
  \/ Includes(ToLowerCase(StrOfDerivedReason(r)), StrLoggedoutLower)
  \/ Includes(StrOfReason(r.payloadReason), StrLoggedoutLower)
  \/ Includes(StrOfReason(r.payloadReason), StrForbidden)

\* Line 218: isLoggedOut, of the close reason r = [statusCode, payloadReason].
IsLoggedOut(r) ==
  \/ r.statusCode = 401
  \/ r.payloadReason = StrLoggedOut
  \/ r.payloadReason = StrLogout
  \/ Includes(ToLowerCase(StrOfDerivedReason(r)), StrLoggedoutLower)
  \/ Includes(ToLowerCase(StrOfReason(r.payloadReason)), StrLoggedoutLower)
  \/ Includes(ToLowerCase(StrOfReason(r.payloadReason)), StrForbidden)

\* Line 229: the reason carried by session.deleted, payloadReason || statusCode.
DeletedReason(r) ==
  IF r.payloadReason # NoReason THEN r.payloadReason ELSE StrOfCode(r.statusCode)

\* Lines 191-192, 207-251: the branch the handler takes on a close, given the
\* entry found for the id (0 when the id is not registered).
CloseBranch(present, restarting, r) ==
  IF ~present THEN "ignored"
  ELSE IF IsLoggedOut(r) THEN "permanent"
  ELSE IF ~restarting THEN "reconnect"
  ELSE "guarded"

\* ------------------------------------------------------- the SessionManager
\* The session ids that callers use.
Ids == {"a"}
\* opts.concurrency of the manager that is modelled.
Concurrency == 1
\* The number of start() calls that are in flight together.
MaxCalls == 2
\* The number of connections of a run: a start() that has to call the factory
\* is made only while the connections made and the calls in flight are fewer.
MaxConns == 2
\* The number of entry objects created in a run.
MaxEntries == 2
\* The number of logout() calls that are in flight together.
MaxLogouts == 1

\* Lines 38-39: the defaults of opts.defaultBackoff and opts.maxBackoff.
DefaultBackoff == 1000
MaxBackoff == 60000

\* A new entry that is born in the middle of a reconnect.
NewEntryReconnecting == [sock |-> 0, backoffMs |-> 0, restarting |-> TRUE,
                         status |-> "reconnecting", streak |-> 0, lost |-> FALSE]

\* Lines 51, 71: a new entry. streak and lost are history, not fields of the
\* entry: streak counts the reconnects scheduled for the entry since its last
\* 'open', lost tells that a transient close took the entry's connection and no
\* connection has replaced it.
NewEntry == [sock |-> 0, backoffMs |-> DefaultBackoff, restarting |-> FALSE,
             status |-> "stopped", streak |-> 0, lost |-> FALSE]

\* Lines 61-62: the write of the id list that _persistMeta starts; kind, idx,
\* id and reason tell which continuation awaits it.
PersistWrite(list, kind, idx, id, reason) ==
  [list |-> list, kind |-> kind, idx |-> idx, id |-> id, reason |-> reason]

\* What a step hands to the outside: the value a call returns (ret: "conn" with
\* the connection, "throw", "true", "false") and the notifications it emits.
\* unhandled: a failure left a callback that nobody awaits.
NoLast == [act |-> "", id |-> "", ret |-> "", conn |-> 0, emits |-> {}, unhandled |-> FALSE]
Returns(act, id, ret, conn) ==
  [act |-> act, id |-> id, ret |-> ret, conn |-> conn, emits |-> {}, unhandled |-> FALSE]
Event(ev, id, reason) == [ev |-> ev, id |-> id, reason |-> reason]

\* Map.prototype.delete on this.sessions: the key order without id.
MapDeleteOrder(id) == SelectSeq(order, LAMBDA x : x # id)

\* Map.prototype.set on this.sessions: a new key goes last, a present key keeps its place.
MapSetOrder(id) == IF ref[id] = 0 THEN Append(order, id) ELSE order

\* entry.backoffMs || this.defaultBackoff (lines 238, 243).
BackoffOf(e) == IF e.backoffMs # 0 THEN e.backoffMs ELSE DefaultBackoff

\* Whether connection k is live: created, and neither closed nor asked to close.
Live(k) == conns[k].cs \in {"new", "open"}

\* ws.close() / sock.logout() on connection k (0: no connection).
CloseConn(k) ==
  IF k # 0 /\ conns[k].cs \in {"new", "open"} THEN [conns EXCEPT ![k].cs = "closing"] ELSE conns

\* isRunning(id), lines 176-179.
IsRunning(id) == ref[id] # 0 /\ entries[ref[id]].sock # 0

\* A start() call slot that is not in use, and the first such slot.
FreeCall == [id |-> "", entry |-> 0, tentry |-> 0, pc |-> "free", conn |-> 0]
FreeCalls == {c \in DOMAIN calls : calls[c].pc = "free"}
FirstFree(S) == CHOOSE c \in S : \A d \in S : c <= d

\* Lines 69-74: register(id), called by a user: a new entry and a write of the
\* id list when the id is absent, nothing otherwise. It returns no value.
Register(id) ==
  /\ ref[id] = 0 => Len(entries) < MaxEntries
  /\ IF ref[id] = 0
     THEN /\ entries' = Append(entries, NewEntry)
          /\ ref' = [ref EXCEPT ![id] = Len(entries) + 1]
          /\ order' = Append(order, id)
          /\ writes' = writes \cup {PersistWrite(Append(order, id), "register", 0, id, NoReason)}
     ELSE UNCHANGED <<entries, ref, order, writes>>
  /\ last' = Returns("register", id, "void", 0)
  /\ gone' = gone \ {id}
  /\ UNCHANGED <<sem, calls, conns, timers, closing, logouts, metaFile, loadPending>>

\* Line 86: if (entry.sock) return entry.sock.
AlreadyRunning(e) == e.sock # 0

\* Line 88: acquire() called by the start of id on entry e, with the calls cs
\* and the Semaphore s: the call holds a slot at once or waits in the queue.
StartAcquire(cs, s, id, e, tentry) ==
  LET c == FirstFree({d \in DOMAIN cs : cs[d].pc = "free"})
      call(pc) == [id |-> id, entry |-> e, tentry |-> tentry, pc |-> pc, conn |-> 0]
  IN IF SemCanEnter(s)
     THEN [calls |-> [cs EXCEPT ![c] = call("acquired")], sem |-> SemEnter(s)]
     ELSE [calls |-> [cs EXCEPT ![c] = call("waiting")], sem |-> SemEnqueue(s, c)]

\* Lines 83-88: the synchronous part of start(id), on the entries ents (those
\* of the state, or those the reconnect timer has just changed). tentry is the
\* entry the reconnect timer holds, 0 for a caller's start.
StartBody(id, tentry, ents) ==
  LET need == ref[id] = 0
      e == IF need THEN Len(ents) + 1 ELSE ref[id]
      ents1 == IF need THEN Append(ents, NewEntry) ELSE ents
      st == StartAcquire(calls, sem, id, e, tentry)
  IN /\ need => Len(ents) < MaxEntries
     /\ ~AlreadyRunning(ents1[e]) => FreeCalls # {}
     /\ order' = IF need THEN Append(order, id) ELSE order
     /\ ref' = [ref EXCEPT ![id] = e]
     /\ writes' = IF need
                  THEN writes \cup {PersistWrite(Append(order, id), "register", 0, id, NoReason)}
                  ELSE writes
     /\ entries' = ents1
     /\ IF AlreadyRunning(ents1[e])
        THEN /\ UNCHANGED <<calls, sem>>
             /\ last' = Returns("start", id, "conn", ents1[e].sock)
        ELSE /\ last' = NoLast
             /\ calls' = st.calls
             /\ sem' = st.sem

\* start(id) called by a user. Callers start a session only while the factory
\* can still produce a connection for every start in flight (MaxConns in all).
StartCall(id) ==
  /\ \/ ref[id] # 0 /\ AlreadyRunning(entries[ref[id]])
     \/ Len(conns) + Cardinality(DOMAIN calls \ FreeCalls) < MaxConns
  /\ StartBody(id, 0, entries)
  /\ gone' = gone \ {id}
  /\ UNCHANGED <<conns, timers, closing, logouts, metaFile, loadPending>>

\* Lines 91-92: after acquire() returned, the status is set and the factory is called.
StartBegin(c) ==
  /\ calls[c].pc = "acquired"
  /\ entries' = [entries EXCEPT ![calls[c].entry].status = "starting"]
  /\ calls' = [calls EXCEPT ![c].pc = "creating"]
  /\ last' = NoLast
  /\ UNCHANGED <<sem, order, ref, conns, timers, closing, logouts, writes, metaFile,
                 loadPending, gone>>

\* Lines 93-117: createSocketFn resolved with a new connection; the listeners
\* are attached and the entry is saved back under the id. The factory produces
\* MaxConns connections at most.
FactoryResolve(c) ==
  /\ calls[c].pc = "creating"
  /\ Len(conns) < MaxConns
  /\ conns' = Append(conns, [id |-> calls[c].id, cs |-> "new"])
  /\ entries' = [entries EXCEPT ![calls[c].entry] =
                   [@ EXCEPT !.sock = Len(conns) + 1, !.status = "connected",
                             !.restarting = FALSE, !.backoffMs = DefaultBackoff,
                             !.lost = FALSE]]
  /\ order' = MapSetOrder(calls[c].id)
  /\ ref' = [ref EXCEPT ![calls[c].id] = calls[c].entry]
  /\ calls' = [calls EXCEPT ![c].pc = "settleOk", ![c].conn = Len(conns) + 1]
  /\ last' = NoLast
  /\ UNCHANGED <<sem, timers, closing, logouts, writes, metaFile, loadPending, gone>>

\* Line 92 throws: createSocketFn rejected; control goes to the finally block.
FactoryReject(c) ==
  /\ calls[c].pc = "creating"
  /\ calls' = [calls EXCEPT ![c].pc = "settleFail"]
  /\ last' = NoLast
  /\ UNCHANGED <<sem, order, ref, entries, conns, timers, closing, logouts, writes,
                 metaFile, loadPending, gone>>

\* The finally block without the release when the try block threw.
FinallyReleaseOnSuccessOnly(s, failed) == IF failed THEN s ELSE SemRelease(s)

\* Lines 118-122: the finally block's release, after the settle delay.
FinallyRelease(s, failed) == SemRelease(s)

\* Lines 92, 117-118: how start() ends: it returns sock, or the factory's
\* failure propagates through the finally block.
StartOutcome(failed, conn) == IF failed THEN "throw" ELSE "conn"

\* The reconnect timer's callback without its try / catch: the failure of the
\* start() it awaits (tentry # 0) leaves the callback.
ReconnectUncaught(failed, tentry) == failed /\ tentry # 0

\* Lines 240-248: whether the failure of a start() leaves a callback that
\* nobody awaits. A caller's start() (tentry = 0) rejects into its caller; the
\* failure of the start() a reconnect timer awaits is caught (line 246).
ReconnectCaught(failed, tentry) == FALSE

\* Lines 120-122, then 245-249 for a reconnect's start: the settle delay is
\* over, the slot is released and the call returns or throws. The waiter that
\* release() wakes resumes (line 21) in the microtask that follows: the timer
\* callback that ends the delay queues nothing else, so no other job of the
\* manager runs in between, and the two are one step here.
StartSettle(c) ==
  /\ calls[c].pc \in {"settleOk", "settleFail"}
  /\ LET failed == calls[c].pc = "settleFail"
         s1 == FinallyRelease(sem, failed)
         w == IF Len(s1.woken) > 0 THEN Head(s1.woken) ELSE 0
     IN /\ sem' = IF w # 0 THEN SemResume(s1) ELSE s1
        /\ calls' = [k \in DOMAIN calls |->
                       IF k = c THEN FreeCall
                       ELSE IF k = w THEN [calls[k] EXCEPT !.pc = "acquired"]
                       ELSE calls[k]]
        /\ entries' = IF failed /\ calls[c].tentry # 0
                      THEN [entries EXCEPT ![calls[c].tentry].restarting = FALSE]
                      ELSE entries
        /\ last' = [Returns("start", calls[c].id, StartOutcome(failed, calls[c].conn),
                            calls[c].conn)
                      EXCEPT !.unhandled = ReconnectCaught(failed, calls[c].tentry)]
  /\ UNCHANGED <<order, ref, conns, timers, closing, logouts, writes, metaFile,
                 loadPending, gone>>

\* The close reasons that connections give in Spec: [statusCode, payloadReason].
Reason(code, payload) == [statusCode |-> code, payloadReason |-> payload]
CloseReasons == {Reason(401, <<"g","o","n","e">>), Reason(428, NoReason)}

\* Lines 198-205: connection k reports 'open'. A connection does so at most
\* once, before it closes.
ConnOpen(k) ==
  /\ k \in 1..Len(conns)
  /\ conns[k].cs = "new"
  /\ conns' = [conns EXCEPT ![k].cs = "open"]
  /\ LET id == conns[k].id
         e == ref[id]
     IN IF e = 0
        THEN /\ last' = NoLast
             /\ UNCHANGED entries
        ELSE /\ entries' = [entries EXCEPT ![e] =
                              [@ EXCEPT !.status = "connected", !.backoffMs = DefaultBackoff,
                                        !.restarting = FALSE, !.streak = 0]]
             /\ last' = [NoLast EXCEPT !.emits = {Event("connected", id, NoReason)}]
  /\ UNCHANGED <<sem, order, ref, calls, timers, closing, logouts, writes, metaFile,
                 loadPending, gone>>

\* Lines 238, 240: the delay of the reconnect timer, the entry's current backoff.
ScheduledDelay(e) == BackoffOf(e)

\* Lines 207-251: connection k reports 'close' with reason r. A connection does
\* so once. The permanent branch suspends in its await of fs rm (line 225); the
\* transient branch schedules the reconnect timer.
ConnClose(k, r) ==
  /\ k \in 1..Len(conns)
  /\ conns[k].cs \in {"new", "open", "closing"}
  /\ conns' = [conns EXCEPT ![k].cs = "closed"]
  /\ LET id == conns[k].id
         e == ref[id]
         br == CloseBranch(e # 0, IF e = 0 THEN FALSE ELSE entries[e].restarting, r)
     IN CASE br = "permanent" ->
               /\ closing' = closing \cup {[k |-> k, id |-> id, reason |-> DeletedReason(r)]}
               /\ UNCHANGED <<entries, timers>>
          [] br = "reconnect" ->
               /\ entries' = [entries EXCEPT ![e] =
                                [@ EXCEPT !.restarting = TRUE, !.sock = 0,
                                          !.status = "reconnecting",
                                          !.streak = @ + 1, !.lost = TRUE]]
               /\ timers' = timers \cup {[k |-> k, id |-> id, entry |-> e,
                                          delay |-> ScheduledDelay(entries[e]),
                                          n |-> entries[e].streak]}
               /\ UNCHANGED closing
          [] OTHER -> UNCHANGED <<entries, timers, closing>>
  /\ last' = NoLast
  /\ UNCHANGED <<sem, order, ref, calls, logouts, writes, metaFile, loadPending, gone>>

\* Lines 227-228: the permanent branch after fs rm: the key is deleted and the
\* id list is written; the handler awaits the write.
PermanentDelete(h) ==
  /\ h \in closing
  /\ closing' = closing \ {h}
  /\ order' = MapDeleteOrder(h.id)
  /\ ref' = [ref EXCEPT ![h.id] = 0]
  /\ writes' = writes \cup {PersistWrite(MapDeleteOrder(h.id), "close", h.k, h.id, h.reason)}
  /\ last' = NoLast
  /\ gone' = gone \cup {h.id}
  /\ UNCHANGED <<sem, entries, calls, conns, timers, logouts, metaFile, loadPending>>

\* Lines 240-244: the reconnect timer t fires: the guard is cleared, the
\* backoff doubled up to the cap, and start(id) is called.
TimerFire(t) ==
  /\ t \in timers
  /\ timers' = timers \ {t}
  /\ StartBody(t.id, t.entry,
               [entries EXCEPT ![t.entry] =
                  [@ EXCEPT !.restarting = FALSE,
                            !.backoffMs = Min(BackoffOf(entries[t.entry]) * 2, MaxBackoff)]])
  /\ UNCHANGED <<conns, closing, logouts, metaFile, loadPending, gone>>

\* stop() that gives up where closing the transport throws.
StoppedUncaught(e, fails) ==
  IF fails THEN [e EXCEPT !.status = "stopping"] ELSE [e EXCEPT !.sock = 0, !.status = "stopped"]

\* Lines 144, 148: the values stop() writes to entry.status, in order, within
\* its one synchronous run.
StopStatuses == <<"stopping", "stopped">>

\* Lines 143-149: the entry after stop(): the failure of ws.close() is
\* swallowed (line 145), the connection reference cleared, the status 'stopped'.
Stopped(e, fails) == [e EXCEPT !.sock = 0, !.status = StopStatuses[Len(StopStatuses)]]

\* Lines 140-151: stop(id), which has no await and runs in one step. fails:
\* ws.close() throws and the transport stays as it was.
Stop(id, fails) ==
  /\ fails => IsRunning(id)
  /\ IF IsRunning(id)
     THEN /\ conns' = IF fails THEN conns ELSE CloseConn(entries[ref[id]].sock)
          /\ entries' = [entries EXCEPT ![ref[id]] = Stopped(@, fails)]
          /\ last' = Returns("stop", id, "true", 0)
     ELSE /\ UNCHANGED <<conns, entries>>
          /\ last' = Returns("stop", id, "false", 0)
  /\ UNCHANGED <<sem, order, ref, calls, timers, closing, logouts, writes, metaFile,
                 loadPending, gone>>

\* A logout() call slot that is not in use.
FreeLogout == [id |-> "", pc |-> "free"]
FreeLogouts == {l \in 1..MaxLogouts : logouts[l].pc = "free"}

\* logout() without the try / catch around the connection's logout.
LogoutUncaught(fails) == IF fails THEN "threw" ELSE "rm"

\* Lines 157-163: where logout() continues after the connection's logout() or
\* ws.close(), which failed or not: the catch swallows the failure.
LogoutCaught(fails) == "rm"

\* Lines 155-167: logout(id) up to its await of fs rm. fails: the connection's
\* own logout() rejects.
LogoutCall(id, fails) ==
  /\ FreeLogouts # {}
  /\ fails => IsRunning(id)
  /\ IF ref[id] = 0
     THEN /\ last' = Returns("logout", id, "false", 0)
          /\ UNCHANGED <<logouts, conns>>
     ELSE /\ conns' = CloseConn(entries[ref[id]].sock)
          /\ IF LogoutCaught(fails) = "threw"
             THEN /\ last' = Returns("logout", id, "throw", 0)
                  /\ UNCHANGED logouts
             ELSE /\ last' = NoLast
                  /\ logouts' = [logouts EXCEPT ![FirstFree(FreeLogouts)] =
                                   [id |-> id, pc |-> LogoutCaught(fails)]]
  /\ UNCHANGED <<sem, order, ref, entries, calls, timers, closing, writes, metaFile,
                 loadPending, gone>>

\* Lines 170-171: logout() after fs rm: the key is deleted and the id list is
\* written; logout awaits the write.
LogoutDelete(l) ==
  /\ logouts[l].pc = "rm"
  /\ logouts' = [logouts EXCEPT ![l].pc = "persist"]
  /\ order' = MapDeleteOrder(logouts[l].id)
  /\ ref' = [ref EXCEPT ![logouts[l].id] = 0]
  /\ writes' = writes \cup {PersistWrite(MapDeleteOrder(logouts[l].id), "logout", l,
                                         logouts[l].id, NoReason)}
  /\ last' = NoLast
  /\ UNCHANGED <<sem, entries, calls, conns, timers, closing, metaFile, loadPending, gone>>

\* _persistMeta without its try / catch: a failed write rejects into the
\* caller that awaits it.
AfterPersistUncaught(w, ok) ==
  CASE w.kind = "logout" ->
         IF ok THEN [Returns("logout", w.id, "true", 0) EXCEPT
                       !.emits = {Event("loggedOut", w.id, NoReason)}]
         ELSE Returns("logout", w.id, "throw", 0)
    [] w.kind = "close" ->
         IF ok THEN [NoLast EXCEPT !.emits = {Event("session.deleted", w.id, w.reason)}]
         ELSE NoLast
    [] OTHER -> NoLast

\* Lines 59-66 and the lines after the await of _persistMeta: what the caller
\* that awaited the write w returns and emits once it settled, ok or not.
\* logout() emits loggedOut and returns true (lines 172-173), the close
\* handler emits session.deleted (line 229), register() did not wait.
AfterPersist(w, ok) ==
  CASE w.kind = "logout" ->
         [Returns("logout", w.id, "true", 0) EXCEPT
            !.emits = {Event("loggedOut", w.id, NoReason)}]
    [] w.kind = "close" ->
         [NoLast EXCEPT !.emits = {Event("session.deleted", w.id, w.reason)}]
    [] OTHER -> NoLast

\* Lines 62-65, then the continuation of the caller that awaited _persistMeta:
\* the write w settles, ok or not (a failure is only logged). logout() emits
\* loggedOut and returns true (lines 172-173); the close handler emits
\* session.deleted (line 229). Writes settle in any order.
WriteSettle(w, ok) ==
  /\ w \in writes
  /\ writes' = writes \ {w}
  /\ metaFile' = IF ok THEN w.list ELSE metaFile
  /\ last' = AfterPersist(w, ok)
  /\ logouts' = IF w.kind = "logout" THEN [logouts EXCEPT ![w.idx] = FreeLogout]
                ELSE logouts
  /\ UNCHANGED <<sem, order, ref, entries, calls, conns, timers, closing, loadPending, gone>>

\* ------------------------------------------------------------ specifications
SemIdle == /\ cpc = [c \in Clients |-> "out"]
           /\ suspOrder = <<>>
           /\ wakeOrder = <<>>
\* An empty registry for the ids S, with nothing in flight.
MgrIdleOver(S) ==
           /\ order = <<>>
           /\ ref = [id \in S |-> 0]
           /\ entries = <<>>
           /\ calls = [c \in 1..MaxCalls |-> FreeCall]
           /\ conns = <<>>
           /\ timers = {}
           /\ closing = {}
           /\ logouts = [l \in 1..MaxLogouts |-> FreeLogout]
           /\ writes = {}
           /\ metaFile = <<>>
           /\ loadPending = FALSE
           /\ last = NoLast
           /\ gone = {}
MgrIdle == MgrIdleOver(Ids)
\* No startAll() call was made.
AllIdle == sall = [called |-> FALSE, keys |-> <<>>, ret |-> "none"]
\* A user id as a caller passes it: a string or a number, with its text.
StrId(t) == [type |-> "string", text |-> t]
NumId(t) == [type |-> "number", text |-> t]
NoId == [type |-> "none", text |-> ""]

\* Stored values: plain objects and numbers, told apart by n; null; booleans.
ObjectValue(n) == [kind |-> "object", n |-> n]
NumberValue(n) == [kind |-> "number", n |-> n]
NullValue == [kind |-> "null", n |-> 0]
BoolValue(b) == [kind |-> "boolean", n |-> IF b THEN 1 ELSE 0]

\* What a store operation hands back: its arguments, the value it returns
\* (all: the object getAll builds), the owners and keys it evicted, and the
\* events it emitted.
StoreResult(op, user, key, val, ret, all, evictedUsers, evictedKeys, emits) ==
  [op |-> op, user |-> user, key |-> key, val |-> val, ret |-> ret, all |-> all,
   evictedUsers |-> evictedUsers, evictedKeys |-> evictedKeys, emits |-> emits]
NoResult == StoreResult("none", NoId, "", NullValue, NullValue, <<>>, <<>>, <<>>, <<>>)

\* A file: missing, holding the complete JSON text of the mapping data, or
\* holding a part of such a text.
NoFile == [state |-> "missing", data |-> <<>>]
CompleteFile(data) == [state |-> "complete", data |-> data]
PartialFile == [state |-> "partial", data |-> <<>>]
\* What the caller holds from a get: the owner and key it read, the value, and
\* whether that value is the object the store holds (shared) or a copy.
NoHeld == [user |-> "", key |-> "", val |-> NullValue, shared |-> FALSE]

\* No DBManager was constructed.
StoreIdle == /\ store = <<>>
             /\ opts = [maxUsers |-> 0, maxKeysPerUser |-> 0, returnDirectRef |-> TRUE,
                        atomicWrite |-> TRUE]
             /\ recency = <<>>
             /\ born = <<>>
             /\ sres = NoResult
             /\ dirty = FALSE
             /\ writeTimer = 0
             /\ pending = {}
             /\ file = NoFile
             /\ tmpFile = NoFile
             /\ held = NoHeld
             /\ crashed = FALSE
             /\ flushed = 0
             /\ burst = 0
ClsIdle == /\ cin = [statusCode |-> NoCode, payloadReason |-> NoReason,
                     present |-> FALSE, restarting |-> FALSE]
           /\ cout = "none"

\* The state after new SessionManager({concurrency}), lines 30-43, when there
\* is no sessions.json for _loadMeta to read.
Init ==
  /\ sem = SemNew(Concurrency)
  /\ MgrIdle
  /\ SemIdle
  /\ AllIdle
  /\ StoreIdle
  /\ ClsIdle

Next ==
  \/ \E id \in Ids : Register(id) /\ UNCHANGED otherVars /\ UNCHANGED sall
  \/ \E id \in Ids : StartCall(id) /\ UNCHANGED otherVars /\ UNCHANGED sall
  \/ \E c \in 1..MaxCalls : StartBegin(c) /\ UNCHANGED otherVars /\ UNCHANGED sall
  \/ \E c \in 1..MaxCalls : FactoryResolve(c) /\ UNCHANGED otherVars /\ UNCHANGED sall
  \/ \E c \in 1..MaxCalls : FactoryReject(c) /\ UNCHANGED otherVars /\ UNCHANGED sall
  \/ \E c \in 1..MaxCalls : StartSettle(c) /\ UNCHANGED otherVars /\ UNCHANGED sall
  \/ \E k \in 1..MaxConns : ConnOpen(k) /\ UNCHANGED otherVars /\ UNCHANGED sall
  \/ \E k \in 1..MaxConns, r \in CloseReasons :
        ConnClose(k, r) /\ UNCHANGED otherVars /\ UNCHANGED sall
  \/ \E h \in closing : PermanentDelete(h) /\ UNCHANGED otherVars /\ UNCHANGED sall
  \/ \E t \in timers : TimerFire(t) /\ UNCHANGED otherVars /\ UNCHANGED sall
  \/ \E id \in Ids, fails \in BOOLEAN :
        Stop(id, fails) /\ UNCHANGED otherVars /\ UNCHANGED sall
  \/ \E id \in Ids, fails \in BOOLEAN :
        LogoutCall(id, fails) /\ UNCHANGED otherVars /\ UNCHANGED sall
  \/ \E l \in 1..MaxLogouts : LogoutDelete(l) /\ UNCHANGED otherVars /\ UNCHANGED sall
  \/ \E w \in writes, ok \in BOOLEAN :
        WriteSettle(w, ok) /\ UNCHANGED otherVars /\ UNCHANGED sall

Spec == Init /\ [][Next]_vars

\* The state after new Semaphore(limit), for every limit up to MaxLimit.
SemInit ==
  /\ sem \in {SemNew(n) : n \in 1..MaxLimit}
  /\ SemIdle
  /\ AllIdle
  /\ StoreIdle
  /\ MgrIdle
  /\ ClsIdle

SemNext ==
  \/ \E c \in Clients : ClientAcquire(c) /\ UNCHANGED nonSemVars
  \/ ClientResume /\ UNCHANGED nonSemVars
  \/ \E c \in Clients : ClientRelease(c) /\ UNCHANGED nonSemVars

SemSpec == SemInit /\ [][SemNext]_vars

\* SemSpec with callers that give their slot back: every holder eventually
\* calls release(), and the continuation of a resolved promise (line 21) runs,
\* as the microtask queue guarantees.
SemFairSpec ==
  /\ SemSpec
  /\ \A c \in Clients : WF_vars(ClientRelease(c) /\ UNCHANGED nonSemVars)
  /\ WF_vars(ClientResume /\ UNCHANGED nonSemVars)

\* --------------------------------------- ClassifySpec: the close classification
\* The status codes and payload reasons that are drawn.
DrawnCodes == {NoCode, 401, 403, 428, 500}
DrawnPayloads ==
  {NoReason,
   <<"f","o","r","b","i","d","d","e","n">>,
   <<"F","o","r","b","i","d","d","e","n">>,
   <<"F","O","R","B","I","D","D","E","N">>,
   <<"x","-","F","o","r","B","i","d","D","e","n","!">>,
   <<"f","o","r","b","i","d">>,
   <<"l","o","g","g","e","d","O","u","t">>,
   <<"L","O","G","G","E","D","O","U","T">>,
   <<"l","o","g","o","u","t">>,
   <<"L","o","g","o","u","t">>,
   <<"t","i","m","e","o","u","t">>,
   <<"x">>}

\* A close reason and the entry's presence and restart guard are drawn.
ClsInit ==
  /\ cin \in [statusCode : DrawnCodes, payloadReason : DrawnPayloads,
              present : BOOLEAN, restarting : BOOLEAN]
  /\ cout = "none"
  /\ sem = SemNew(Concurrency)
  /\ SemIdle
  /\ AllIdle
  /\ StoreIdle
  /\ MgrIdle

\* The handler classifies the drawn close.
Classify ==
  /\ cout = "none"
  /\ cout' = CloseBranch(cin.present, cin.restarting, Reason(cin.statusCode, cin.payloadReason))
  /\ UNCHANGED cin
  /\ UNCHANGED semVars
  /\ UNCHANGED mgrVars
  /\ UNCHANGED allVars
  /\ UNCHANGED storeVars

ClsNext == Classify

ClassifySpec == ClsInit /\ [][ClsNext]_vars

\* ----------------------------- RegSpec: register calls and their id-list writes
\* The ids that callers register in RegSpec.
RegIds == {"a", "b", "c", "d"}

\* The state after new SessionManager() when there is no sessions.json.
RegInit ==
  /\ sem = SemNew(Concurrency)
  /\ MgrIdleOver(RegIds)
  /\ SemIdle
  /\ AllIdle
  /\ StoreIdle
  /\ ClsIdle

\* Callers register ids; the writes of the id list complete, each with
\* success, in any order.
RegNext ==
  \/ \E id \in RegIds : Register(id) /\ UNCHANGED otherVars /\ UNCHANGED sall
  \/ \E w \in writes : WriteSettle(w, TRUE) /\ UNCHANGED otherVars /\ UNCHANGED sall

RegSpec == RegInit /\ [][RegNext]_vars

\* ------------------------- LoadSpec: the constructor's load and register calls
\* The content of sessions.json when the manager is constructed.
LoadList == <<"a">>

\* The state after new SessionManager() when sessions.json holds LoadList:
\* _loadMeta() was called (line 42) and is suspended in its readFile (line 47).
LoadInit ==
  /\ sem = SemNew(Concurrency)
  /\ order = <<>>
  /\ ref = [id \in RegIds |-> 0]
  /\ entries = <<>>
  /\ calls = [c \in 1..MaxCalls |-> FreeCall]
  /\ conns = <<>>
  /\ timers = {}
  /\ closing = {}
  /\ logouts = [l \in 1..MaxLogouts |-> FreeLogout]
  /\ writes = {}
  /\ metaFile = LoadList
  /\ loadPending = TRUE
  /\ last = NoLast
  /\ gone = {}
  /\ SemIdle
  /\ AllIdle
  /\ StoreIdle
  /\ ClsIdle

\* Lines 47-53: readFile completes with the content the file has at that
\* moment and the loop creates an entry for every id of the list that is not
\* registered; nothing is written.
LoadMeta ==
  /\ loadPending
  /\ loadPending' = FALSE
  /\ LET new == SelectSeq(metaFile, LAMBDA id : ref[id] = 0)
     IN  /\ order' = order \o new
         /\ entries' = entries \o [i \in 1..Len(new) |-> NewEntry]
         /\ ref' = [id \in RegIds |->
                      IF \E i \in 1..Len(new) : new[i] = id
                      THEN Len(entries) + (CHOOSE i \in 1..Len(new) : new[i] = id)
                      ELSE ref[id]]
  /\ last' = NoLast
  /\ UNCHANGED <<sem, calls, conns, timers, closing, logouts, writes, metaFile, gone>>

\* Callers register ids while the load is pending and after it; the writes of
\* the id list complete, each with success, in any order.
LoadNext ==
  \/ LoadMeta /\ UNCHANGED otherVars /\ UNCHANGED sall
  \/ \E id \in RegIds : Register(id) /\ UNCHANGED otherVars /\ UNCHANGED sall
  \/ \E w \in writes : WriteSettle(w, TRUE) /\ UNCHANGED otherVars /\ UNCHANGED sall

LoadSpec == LoadInit /\ [][LoadNext]_vars

\* ------------------------------------------------ AllSpec: startAll()
\* The ids of the registry in AllSpec, in registry order, and the concurrency
\* the manager is constructed with.
AllIds == <<"a", "b", "c">>
AllConcurrency == 2

\* Lines 128-130: keys.map(async sid => ...) calls every task at once, and each
\* task runs start(sid) up to its first await: register() finds the id, line 86
\* tests entry.sock and acquire() takes a slot or queues the call. ks: the keys
\* still to map, st: the calls and the Semaphore so far.
RECURSIVE StartEach(_, _)
StartEach(ks, st) ==
  IF ks = <<>> THEN st
  ELSE StartEach(Tail(ks),
                 IF AlreadyRunning(entries[ref[Head(ks)]]) THEN st
                 ELSE StartAcquire(st.calls, st.sem, Head(ks), ref[Head(ks)], 0))

\* Lines 133-136: the loop over the batches calls every element of tasks as a
\* function (chunk.map(fn => fn())); the elements are the promises of line
\* 128, so the first batch throws a TypeError and startAll() rejects. With no
\* key the loop body does not run and startAll() returns.
StartAllOutcome(keys) == IF Len(keys) > 0 THEN "throw" ELSE "done"

\* Lines 126-138: startAll(), which runs up to its rejection or return in one
\* step: it has no await before line 135.
StartAll ==
  /\ ~sall.called
  /\ LET st == StartEach(order, [calls |-> calls, sem |-> sem])
     IN /\ calls' = st.calls
        /\ sem' = st.sem
  /\ sall' = [called |-> TRUE, keys |-> order, ret |-> StartAllOutcome(order)]
  /\ last' = Returns("startAll", "", StartAllOutcome(order), 0)
  /\ UNCHANGED <<order, ref, entries, conns, timers, closing, logouts, writes, metaFile,
                 loadPending, gone>>

\* The state after new SessionManager({concurrency: AllConcurrency}) and the
\* registration of the first n ids of AllIds, the writes of the id list done.
AllInit ==
  /\ \E n \in 0..Len(AllIds) :
        /\ order = SubSeq(AllIds, 1, n)
        /\ ref = [id \in Range(AllIds) |->
                    IF \E i \in 1..n : AllIds[i] = id
                    THEN CHOOSE i \in 1..n : AllIds[i] = id ELSE 0]
        /\ entries = [i \in 1..n |-> NewEntry]
        /\ metaFile = SubSeq(AllIds, 1, n)
  /\ sem = SemNew(AllConcurrency)
  /\ calls = [c \in 1..Len(AllIds) |-> FreeCall]
  /\ conns = <<>>
  /\ timers = {}
  /\ closing = {}
  /\ logouts = [l \in 1..MaxLogouts |-> FreeLogout]
  /\ writes = {}
  /\ loadPending = FALSE
  /\ last = NoLast
  /\ gone = {}
  /\ SemIdle
  /\ AllIdle
  /\ StoreIdle
  /\ ClsIdle

\* startAll() is called once; the starts it launched run on, the connections
\* they obtain stay silent.
AllNext ==
  \/ StartAll /\ UNCHANGED otherVars
  \/ \E c \in DOMAIN calls : StartBegin(c) /\ UNCHANGED otherVars /\ UNCHANGED sall
  \/ \E c \in DOMAIN calls : FactoryResolve(c) /\ UNCHANGED otherVars /\ UNCHANGED sall
  \/ \E c \in DOMAIN calls : FactoryReject(c) /\ UNCHANGED otherVars /\ UNCHANGED sall
  \/ \E c \in DOMAIN calls : StartSettle(c) /\ UNCHANGED otherVars /\ UNCHANGED sall

AllSpec == AllInit /\ [][AllNext]_vars

\* AllSpec with a factory whose every call settles, and with the timers and
\* continuations of start() running: a start that holds a slot calls the
\* factory, and a start whose factory call settled ends its settle delay.
AllFairSpec ==
  /\ AllSpec
  /\ \A c \in 1..Len(AllIds) :
        /\ WF_vars(StartBegin(c) /\ UNCHANGED otherVars /\ UNCHANGED sall)
        /\ WF_vars((FactoryResolve(c) \/ FactoryReject(c))
                     /\ UNCHANGED otherVars /\ UNCHANGED sall)
        /\ WF_vars(StartSettle(c) /\ UNCHANGED otherVars /\ UNCHANGED sall)

\* ------------------------------------------ StoreSpec: the DBManager of client.js
\* The owner ids under which the store keeps data, the ids callers pass (the
\* number 5 and the string "5" are different Map keys but the same text),
\* the keys and the values.
OwnerTexts == {"a", "b", "5"}
UserIds == {StrId("a"), StrId("b"), StrId("5"), NumId("5")}
StoreKeys == {"k1", "k2", "k3"}
StoreValues == {ObjectValue(1), NumberValue(0)}
\* The (owner id, key) pairs the calls are made with: every id with the first
\* key, one owner with every key.
StoreInputs == (UserIds \X {"k1"}) \cup ({StrId("a")} \X StoreKeys)
MaxStoreKeys == 3
MappingValue == [kind |-> "mapping", n |-> 0]
UndefinedValue == [kind |-> "undefined", n |-> 0]

\* String(userId)
ToStringId(u) == u.text

\* !val
Truthy(v) == CASE v.kind = "object" -> TRUE
               [] v.kind = "number" -> v.n # 0
               [] v.kind = "boolean" -> v.n = 1
               [] OTHER -> FALSE

\* JSON.parse(JSON.stringify(x)) of a JSON value: a fresh value of the same
\* shape; a value JSON cannot carry is dropped to null.
DeepClone(v) == CASE v.kind = "object" -> ObjectValue(v.n)
                  [] v.kind = "number" -> NumberValue(v.n)
                  [] v.kind = "boolean" -> BoolValue(v.n = 1)
                  [] OTHER -> NullValue

\* The names Object.entries lists first, in ascending order: integer-like ones.
IntegerNames == <<"5">>
\* Object.entries of a parsed object whose member names were written in the
\* order names: the order in which the members are listed.
ObjectEntries(names) ==
  SelectSeq(IntegerNames, LAMBDA t : t \in Range(names))
    \o SelectSeq(names, LAMBDA t : t \notin Range(IntegerNames))
UserNames(q) == [i \in 1..Len(q) |-> q[i].user]
KeyNames(m) == [i \in 1..Len(m) |-> m[i].key]
\* The [key, value] members of the object m in Object.entries order.
KeyEntries(m) ==
  [i \in 1..Len(m) |->
     m[CHOOSE x \in 1..Len(m) : m[x].key = ObjectEntries(KeyNames(m))[i]]]

RemoveAt(q, i) == SubSeq(q, 1, i - 1) \o SubSeq(q, i + 1, Len(q))
MoveToEnd(q, i) == Append(RemoveAt(q, i), q[i])
\* this.store.get(userId): position of the owner, 0 when the Map has no such
\* key (a number is never a key of the store).
IndexOfUser(st, u) ==
  IF u.type = "string" /\ \E i \in 1..Len(st) : st[i].user = u.text
  THEN CHOOSE i \in 1..Len(st) : st[i].user = u.text
  ELSE 0
IndexOfKey(m, k) ==
  IF \E i \in 1..Len(m) : m[i].key = k THEN CHOOSE i \in 1..Len(m) : m[i].key = k ELSE 0
\* Map.set on a key map: an existing key keeps its position.
UserMapSet(m, k, v) ==
  IF IndexOfKey(m, k) = 0 THEN Append(m, [key |-> k, val |-> v])
  ELSE [m EXCEPT ![IndexOfKey(m, k)].val = v]
TotalKeys(st) == LET RECURSIVE sum(_)
                     sum(i) == IF i = 0 THEN 0 ELSE Len(st[i].keys) + sum(i - 1)
                 IN  sum(Len(st))

\* _initFromFile: every owner and key of the file, in Object.entries order.
InitFromFile(snapshot) ==
  [i \in 1..Len(snapshot) |->
     LET t == ObjectEntries(UserNames(snapshot))[i]
     IN  [user |-> t,
          keys |-> KeyEntries(snapshot[CHOOSE x \in 1..Len(snapshot) : snapshot[x].user = t].keys)]]

\* _applyLRUIfNeeded: owners deleted from the front while there are too many.
ApplyLRUIfNeeded(st, maxUsers) ==
  LET n == IF maxUsers = 0 \/ Len(st) <= maxUsers THEN 0 ELSE Len(st) - maxUsers
  IN  [store |-> SubSeq(st, n + 1, Len(st)),
       evicted |-> [i \in 1..n |-> st[i].user]]

\* _ensureUserMap for the owner text t.
EnsureUserMap(st, t, maxUsers) ==
  LET i == IndexOfUser(st, StrId(t))
  IN  IF i = 0 THEN ApplyLRUIfNeeded(Append(st, [user |-> t, keys |-> <<>>]), maxUsers)
      ELSE [store |-> IF maxUsers # 0 THEN MoveToEnd(st, i) ELSE st, evicted |-> <<>>]

\* A variant that deletes from the back: the newest keys go.
ApplyMaxKeysNewest(m, maxKeys) ==
  LET n == IF maxKeys = 0 \/ Len(m) <= maxKeys THEN 0 ELSE Len(m) - maxKeys
  IN  [keys |-> SubSeq(m, 1, Len(m) - n),
       evicted |-> [i \in 1..n |-> m[Len(m) + 1 - i].key]]

\* _applyMaxKeysToUser: keys deleted from the front while there are too many.
ApplyMaxKeysToUser(m, maxKeys) ==
  LET n == IF maxKeys = 0 \/ Len(m) <= maxKeys THEN 0 ELSE Len(m) - maxKeys
  IN  [keys |-> SubSeq(m, n + 1, Len(m)),
       evicted |-> [i \in 1..n |-> m[i].key]]

Emit(name, t, k) == [name |-> name, user |-> t, key |-> k]

\* The recency order of the owners that were touched, oldest first: an owner
\* named by a get, getAll or set (by the text of the id) moves to the end,
\* an owner that left the store leaves the order. Kept when maxUsers is set.
Touch(rec, t, st) ==
  LET present == {st[i].user : i \in 1..Len(st)}
      kept == SelectSeq(rec, LAMBDA x : x \in present /\ x # t)
  IN  IF opts.maxUsers = 0 THEN <<>>
      ELSE IF t \in present THEN Append(kept, t) ELSE kept
Forget(rec, st) ==
  SelectSeq(rec, LAMBDA x : x \in {st[i].user : i \in 1..Len(st)})

\* The keys of every owner in the order of their first insertion.
BornOf(st) ==
  [t \in OwnerTexts |->
     IF IndexOfUser(st, StrId(t)) = 0 THEN <<>>
     ELSE [j \in 1..Len(st[IndexOfUser(st, StrId(t))].keys) |->
             st[IndexOfUser(st, StrId(t))].keys[j].key]]
BornAfter(b, st) ==
  [t \in OwnerTexts |->
     LET i == IndexOfUser(st, StrId(t))
         have == IF i = 0 THEN {} ELSE {st[i].keys[j].key : j \in 1..Len(st[i].keys)}
     IN  SelectSeq(b[t], LAMBDA k : k \in have)]

\* JSON.stringify(this._serializeToObject()) as the mapping it denotes:
\* owner -> key -> value.
Contents(st) ==
  [t \in {st[i].user : i \in 1..Len(st)} |->
     LET m == st[CHOOSE i \in 1..Len(st) : st[i].user = t].keys
     IN  [k \in {m[j].key : j \in 1..Len(m)} |->
            DeepClone(m[CHOOSE j \in 1..Len(m) : m[j].key = k].val)]]

MaxTimers == 3
\* setTimeout: a timer that is not pending (the lowest free one).
NewTimer(pend) ==
  CHOOSE id \in 1..MaxTimers : id \notin pend /\ \A j \in 1..(id - 1) : j \in pend
\* A variant without the clearTimeout of the timer _writeTimer refers to.
ScheduledUncleared(h, pend) ==
  [writeTimer |-> NewTimer(pend), pending |-> pend \cup {NewTimer(pend)}]

\* _scheduleWrite on the handle h and the pending timers pend: clearTimeout of
\* the timer h refers to, then a new timer.
Scheduled(h, pend) ==
  [writeTimer |-> NewTimer(pend \ {h}), pending |-> (pend \ {h}) \cup {NewTimer(pend \ {h})}]

timerVars == <<dirty, writeTimer, pending, flushed>>
\* _scheduleWrite
ScheduleWrite ==
  /\ dirty' = TRUE
  /\ writeTimer' = Scheduled(writeTimer, pending).writeTimer
  /\ pending' = Scheduled(writeTimer, pending).pending
  /\ flushed' = 0

StoreFrame == UNCHANGED <<semVars, mgrVars, clsVars, allVars, opts, file, tmpFile, crashed>>

\* set(userId, key, value)
Set(u, key, value) ==
  LET t == ToStringId(u)
      ens == EnsureUserMap(store, t, opts.maxUsers)
      i == IndexOfUser(ens.store, StrId(t))
      isNew == IndexOfUser(store, StrId(t)) = 0 \/ IndexOfKey(ens.store[i].keys, key) = 0
      am == ApplyMaxKeysToUser(UserMapSet(ens.store[i].keys, key, value),
                               opts.maxKeysPerUser)
      st1 == [ens.store EXCEPT ![i].keys = am.keys]
      b1 == [born EXCEPT ![t] = IF key \in Range(@) THEN @ ELSE Append(@, key)]
  IN  /\ isNew => TotalKeys(store) < MaxStoreKeys
      /\ store' = st1
      /\ ScheduleWrite
      /\ sres' = StoreResult("set", u, key, value, UndefinedValue, <<>>,
                             ens.evicted, am.evicted,
                             [j \in 1..Len(ens.evicted) |->
                                Emit("evictUser", ens.evicted[j], "")]
                               \o <<Emit("set", t, key)>>)
      /\ recency' = Touch(recency, t, st1)
      /\ born' = BornAfter(b1, st1)
      /\ StoreFrame

\* get(userId, key)
Get(u, key) ==
  LET i == IndexOfUser(store, u)
      j == IF i = 0 THEN 0 ELSE IndexOfKey(store[i].keys, key)
      val == IF j = 0 THEN NullValue ELSE store[i].keys[j].val
      ret == IF i = 0 \/ ~Truthy(val) THEN NullValue
             ELSE IF opts.returnDirectRef THEN val ELSE DeepClone(val)
  IN  /\ store' = IF i # 0 /\ opts.maxUsers # 0 THEN MoveToEnd(store, i) ELSE store
      /\ sres' = StoreResult("get", u, key, NullValue, ret, <<>>, <<>>, <<>>, <<>>)
      /\ recency' = Touch(recency, ToStringId(u), store)
      /\ UNCHANGED <<born, timerVars>>
      /\ StoreFrame

\* getAll(userId)
GetAll(u) ==
  LET i == IndexOfUser(store, u)
  IN  /\ store' = IF i # 0 /\ opts.maxUsers # 0 THEN MoveToEnd(store, i) ELSE store
      /\ sres' = StoreResult("getAll", u, "", NullValue,
                             IF i = 0 THEN NullValue ELSE MappingValue,
                             IF i = 0 THEN <<>> ELSE KeyEntries(store[i].keys),
                             <<>>, <<>>, <<>>)
      /\ recency' = Touch(recency, ToStringId(u), store)
      /\ UNCHANGED <<born, timerVars>>
      /\ StoreFrame

\* delKey without line 433: an owner whose last key was deleted stays.
KeepEmptied(st, i, m1) == [st EXCEPT ![i].keys = m1]

\* Line 433: the store after delKey left owner i with the keys m1: an owner
\* without keys is deleted.
DropEmptied(st, i, m1) ==
  IF Len(m1) = 0 THEN RemoveAt(st, i) ELSE [st EXCEPT ![i].keys = m1]

\* delKey(userId, key)
DelKey(u, key) ==
  LET i == IndexOfUser(store, u)
      j == IF i = 0 THEN 0 ELSE IndexOfKey(store[i].keys, key)
      m1 == IF j = 0 THEN store[i].keys ELSE RemoveAt(store[i].keys, j)
      st1 == IF i = 0 THEN store ELSE DropEmptied(store, i, m1)
  IN  /\ store' = st1
      /\ IF j # 0 THEN ScheduleWrite ELSE UNCHANGED timerVars
      /\ sres' = StoreResult("delKey", u, key, NullValue, BoolValue(j # 0), <<>>, <<>>,
                             <<>>, IF j # 0 THEN <<Emit("delKey", u.text, key)>> ELSE <<>>)
      /\ recency' = Forget(recency, st1)
      /\ born' = BornAfter(born, st1)
      /\ StoreFrame

\* delUser(userId)
DelUser(u) ==
  LET i == IndexOfUser(store, u)
      st1 == IF i = 0 THEN store ELSE RemoveAt(store, i)
  IN  /\ store' = st1
      /\ IF i # 0 THEN ScheduleWrite ELSE UNCHANGED timerVars
      /\ sres' = StoreResult("delUser", u, "", NullValue, BoolValue(i # 0), <<>>, <<>>,
                             <<>>, IF i # 0 THEN <<Emit("delUser", u.text, "")>> ELSE <<>>)
      /\ recency' = Forget(recency, st1)
      /\ born' = BornAfter(born, st1)
      /\ StoreFrame

\* The snapshot files a store is constructed from, members in file order:
\* no data, one owner without keys (line 302 reads it as an empty map), one
\* owner, three owners, and one owner with three keys.
OneKey(v) == <<[key |-> "k1", val |-> v]>>
Snapshots ==
  { <<>>,
    <<[user |-> "a", keys |-> <<>>]>>,
    <<[user |-> "a", keys |-> OneKey(ObjectValue(1))]>>,
    <<[user |-> "a", keys |-> OneKey(ObjectValue(1))],
      [user |-> "b", keys |-> OneKey(ObjectValue(1))],
      [user |-> "5", keys |-> OneKey(ObjectValue(1))]>>,
    <<[user |-> "a", keys |-> <<[key |-> "k1", val |-> ObjectValue(1)],
                                [key |-> "k2", val |-> ObjectValue(1)],
                                [key |-> "k3", val |-> ObjectValue(1)]>>]>> }
\* The constructor options drawn: every combination of the two limits (0: not
\* configured) under the default read policy, and the deep-copy policy.
MaxUsersOption == 2
MaxKeysOption == 2
StoreOptions ==
  [maxUsers : {0, MaxUsersOption}, maxKeysPerUser : {0, MaxKeysOption},
   returnDirectRef : {TRUE}, atomicWrite : {TRUE}]
    \cup {[maxUsers |-> 0, maxKeysPerUser |-> 0, returnDirectRef |-> FALSE,
            atomicWrite |-> TRUE]}

\* The constructor on the file snapshot (members in file order): the store
\* is read from the file.
Constructed(snapshot) ==
  /\ store = InitFromFile(snapshot)
  /\ recency = <<>>
  /\ born = BornOf(store)
  /\ sres = NoResult
  /\ dirty = FALSE
  /\ writeTimer = 0
  /\ pending = {}
  /\ held = NoHeld
  /\ crashed = FALSE
  /\ flushed = 0
  /\ burst = 0

\* new DBManager(options) on a drawn snapshot file.
StoreInit ==
  /\ sem = SemNew(Concurrency)
  /\ SemIdle /\ MgrIdle /\ ClsIdle /\ AllIdle
  /\ opts \in StoreOptions
  /\ \E snapshot \in Snapshots : Constructed(snapshot)
  /\ file = NoFile
  /\ tmpFile = NoFile

\* The caller keeps no value it read.
StoreNext ==
  \/ \E in \in StoreInputs, v \in StoreValues : Set(in[1], in[2], v) /\ UNCHANGED <<held, burst>>
  \/ \E in \in StoreInputs : Get(in[1], in[2]) /\ UNCHANGED <<held, burst>>
  \/ \E u \in UserIds : GetAll(u) /\ UNCHANGED <<held, burst>>
  \/ \E in \in StoreInputs : DelKey(in[1], in[2]) /\ UNCHANGED <<held, burst>>
  \/ \E u \in UserIds : DelUser(u) /\ UNCHANGED <<held, burst>>

StoreSpec == StoreInit /\ [][StoreNext]_vars

\* ------------------------ EmptyStoreSpec: a DBManager that starts without data
\* stats(): the object { users, keys } it returns, as its members.
Stats(st) ==
  <<[key |-> "users", val |-> NumberValue(Len(st))],
    [key |-> "keys", val |-> NumberValue(TotalKeys(st))]>>

\* stats()
StatsCall ==
  /\ sres' = StoreResult("stats", NoId, "", NullValue, MappingValue, Stats(store),
                         <<>>, <<>>, <<>>)
  /\ UNCHANGED <<store, recency, born, timerVars>>
  /\ StoreFrame

\* new DBManager(options) when the snapshot file is missing or holds {}.
EmptyStoreInit ==
  /\ sem = SemNew(Concurrency)
  /\ SemIdle /\ MgrIdle /\ ClsIdle /\ AllIdle
  /\ opts \in StoreOptions
  /\ Constructed(<<>>)
  /\ file = NoFile
  /\ tmpFile = NoFile

EmptyStoreNext ==
  \/ StoreNext
  \/ StatsCall /\ UNCHANGED <<held, burst>>

EmptyStoreSpec == EmptyStoreInit /\ [][EmptyStoreNext]_vars

\* ------------------------------- FlushSpec: the DBManager and its snapshot file
\* How a run of _flushToDisk ends: it completes, a file operation throws
\* (the write, or the rename of the atomic mode), or the process is
\* interrupted before the write, in the middle of it, after it, or after the
\* rename of the atomic mode.
FailResults == {"failWrite", "failRename"}
CrashResults == {"crashBefore", "crashDuring", "crashAfterWrite", "crashAfterRename"}
FlushResults(atomic) ==
  IF atomic THEN {"ok"} \cup FailResults \cup CrashResults
  ELSE {"ok", "failWrite", "crashBefore", "crashDuring", "crashAfterWrite"}

\* writeFn of _flushToDisk: the two files after a run that ends as result,
\* writing the mapping data over the files f (real) and t (temporary).
WriteFiles(atomic, result, data, f, t) ==
  IF atomic
  THEN CASE result = "ok" -> [file |-> CompleteFile(data), tmpFile |-> NoFile]
         [] result = "failWrite" -> [file |-> f, tmpFile |-> PartialFile]
         [] result = "failRename" -> [file |-> f, tmpFile |-> CompleteFile(data)]
         [] result = "crashBefore" -> [file |-> f, tmpFile |-> t]
         [] result = "crashDuring" -> [file |-> f, tmpFile |-> PartialFile]
         [] result = "crashAfterWrite" -> [file |-> f, tmpFile |-> CompleteFile(data)]
         [] OTHER -> [file |-> CompleteFile(data), tmpFile |-> NoFile]
  ELSE CASE result \in {"ok", "crashAfterWrite"} ->
              [file |-> CompleteFile(data), tmpFile |-> t]
         [] result \in {"failWrite", "crashDuring"} -> [file |-> PartialFile, tmpFile |-> t]
         [] OTHER -> [file |-> f, tmpFile |-> t]

\* A variant that always overwrites the real file directly.
FlushFilesDirect(result, data, f, t) == WriteFiles(FALSE, result, data, f, t)

\* The files after a run of _flushToDisk under the configured mode.
FlushFiles(result, data, f, t) == WriteFiles(opts.atomicWrite, result, data, f, t)

ThrownValue == [kind |-> "throw", n |-> 0]

\* _flushToDisk ending as result; heard: whether an "error" listener is
\* registered (emit("error") throws the error when none is).
FlushToDisk(result, heard) ==
  IF ~dirty
  THEN [file |-> file, tmpFile |-> tmpFile, dirty |-> FALSE, wrote |-> FALSE,
        emits |-> <<>>, throws |-> FALSE, crash |-> FALSE]
  ELSE [file |-> FlushFiles(result, Contents(store), file, tmpFile).file,
        tmpFile |-> FlushFiles(result, Contents(store), file, tmpFile).tmpFile,
        dirty |-> result # "ok",
        wrote |-> result = "ok",
        emits |-> IF result = "ok" THEN <<Emit("flush", "", "")>>
                  ELSE IF result \in FailResults THEN <<Emit("error", "", "")>>
                  ELSE <<>>,
        throws |-> result \in FailResults /\ ~heard,
        crash |-> result \in CrashResults]

MaxFlushed == 2
FlushFrame == UNCHANGED <<semVars, mgrVars, clsVars, allVars, opts, store, recency, born>>

\* What a run of _flushToDisk leaves, for the operation op that ran it.
Flushed(op, result, heard, dies) ==
  LET r == FlushToDisk(result, heard)
  IN  /\ result \in FlushResults(opts.atomicWrite)
      /\ file' = r.file
      /\ tmpFile' = r.tmpFile
      /\ dirty' = r.dirty
      /\ flushed' = IF r.wrote THEN Min(flushed + 1, MaxFlushed) ELSE flushed
      /\ crashed' = (r.crash \/ (dies /\ r.throws))
      /\ sres' = StoreResult(op, NoId, "", NullValue,
                             IF r.throws THEN ThrownValue ELSE UndefinedValue,
                             <<>>, <<>>, <<>>, r.emits)
      /\ FlushFrame

\* The debounce timer id fires: () => this._flushToDisk(). What it throws is
\* an uncaught exception.
DebounceFire(id, result, heard) ==
  /\ id \in pending
  /\ pending' = pending \ {id}
  /\ UNCHANGED writeTimer
  /\ Flushed("timer", result, heard, TRUE)

\* syncFlush()
SyncFlush(result, heard) ==
  /\ pending' = pending \ {writeTimer}
  /\ writeTimer' = 0
  /\ Flushed("syncFlush", result, heard, FALSE)

\* close()
Close(result, heard) ==
  /\ pending' = pending \ {writeTimer}
  /\ writeTimer' = 0
  /\ Flushed("close", result, heard, FALSE)

\* A variant that hands out the stored object under either policy.
HeldFromDirect(r) ==
  IF r.ret.kind # "object" THEN NoHeld
  ELSE [user |-> ToStringId(r.user), key |-> r.key, val |-> r.ret, shared |-> TRUE]

\* The caller's hold on the value a get returned: the stored object itself
\* under the direct-reference policy, a copy otherwise; null is no object.
HeldFrom(r) ==
  IF r.ret.kind # "object" THEN NoHeld
  ELSE [user |-> ToStringId(r.user), key |-> r.key, val |-> r.ret,
        shared |-> opts.returnDirectRef]

\* Whether the step replaces or removes the object stored for owner t, key k.
Replaced(t, k) ==
  \/ sres'.op = "set" /\ ToStringId(sres'.user) = t /\ sres'.key = k
  \/ IndexOfUser(store', StrId(t)) = 0
  \/ IndexOfKey(store'[IndexOfUser(store', StrId(t))].keys, k) = 0
\* The hold after a store operation: a held object that left the store is
\* no longer shared with it.
HeldAfter ==
  held' = IF held.shared /\ Replaced(held.user, held.key)
          THEN [held EXCEPT !.shared = FALSE] ELSE held

\* The caller changes the object it holds (v.count = 2 on {count: 1}).
Changed(v) == ObjectValue(3 - v.n)
Mutate ==
  /\ held.val.kind = "object"
  /\ held' = [held EXCEPT !.val = Changed(@)]
  /\ store' = IF held.shared
              THEN LET i == IndexOfUser(store, StrId(held.user))
                       j == IndexOfKey(store[i].keys, held.key)
                   IN  [store EXCEPT ![i].keys[j].val = Changed(held.val)]
              ELSE store
  /\ sres' = StoreResult("mutate", NoId, "", NullValue, NullValue, <<>>, <<>>, <<>>, <<>>)
  /\ UNCHANGED <<recency, born, timerVars>>
  /\ StoreFrame

MaxBurst == 3
\* Whether the step is a call that changed the store and scheduled a write.
Mutating ==
  \/ sres'.op = "set"
  \/ sres'.op \in {"delKey", "delUser"} /\ sres'.ret = BoolValue(TRUE)
\* The changes counted: a change made while the previous one is unwritten
\* adds to the burst, a change after a write starts a new one.
BurstAfter ==
  burst' = IF ~Mutating THEN burst
           ELSE IF dirty /\ flushed = 0 THEN Min(burst + 1, MaxBurst) ELSE 1
Tracked == HeldAfter /\ BurstAfter

FlushUsers == {StrId("a")}
FlushKeys == {"k1"}
FlushValues == {ObjectValue(1), NumberValue(0)}
\* The snapshot files drawn: no data, one owner with one key.
FlushSnapshots ==
  { <<>>,
    <<[user |-> "a", keys |-> OneKey(ObjectValue(1))]>> }
FlushOptions ==
  [maxUsers : {0}, maxKeysPerUser : {0}, returnDirectRef : BOOLEAN, atomicWrite : BOOLEAN]

\* new DBManager(options) on a drawn snapshot file: the file exists (it is
\* created empty when missing) and holds what was loaded.
FlushInit ==
  /\ sem = SemNew(Concurrency)
  /\ SemIdle /\ MgrIdle /\ ClsIdle /\ AllIdle
  /\ opts \in FlushOptions
  /\ \E snapshot \in FlushSnapshots :
       /\ Constructed(snapshot)
       /\ file = CompleteFile(Contents(snapshot))
  /\ tmpFile = NoFile

\* The process runs until it is interrupted; the caller holds on to the
\* value of its last get.
Running == ~crashed
FlushNext ==
  \/ \E u \in FlushUsers, k \in FlushKeys, v \in FlushValues :
       Running /\ Set(u, k, v) /\ Tracked
  \/ \E u \in FlushUsers, k \in FlushKeys : Running /\ Get(u, k) /\ held' = HeldFrom(sres')
       /\ UNCHANGED burst
  \/ \E u \in FlushUsers, k \in FlushKeys : Running /\ DelKey(u, k) /\ Tracked
  \/ \E u \in FlushUsers : Running /\ DelUser(u) /\ Tracked
  \/ Running /\ Mutate /\ UNCHANGED burst
  \/ \E id \in pending, r \in FlushResults(opts.atomicWrite), heard \in BOOLEAN :
       Running /\ DebounceFire(id, r, heard) /\ UNCHANGED <<held, burst>>
  \/ \E r \in FlushResults(opts.atomicWrite), heard \in BOOLEAN :
       Running /\ SyncFlush(r, heard) /\ UNCHANGED <<held, burst>>
  \/ \E r \in FlushResults(opts.atomicWrite), heard \in BOOLEAN :
       Running /\ Close(r, heard) /\ UNCHANGED <<held, burst>>

FlushSpec == FlushInit /\ [][FlushNext]_vars

\* ------------------------------------------------------------------- claims
\* The start() calls that hold a slot: past acquire() and not yet released.
Holders == {c \in 1..MaxCalls : calls[c].pc \in {"acquired", "creating", "settleOk", "settleFail"}}
InFlight == {c \in 1..MaxCalls : calls[c].pc # "free"}
LiveConns(id) == {k \in 1..Len(conns) : conns[k].id = id /\ Live(k)}

\* C1 (SemSpec): for every limit and every interleaving of acquire() and
\* release() calls, the active count never exceeds the limit.
C1_ActiveAtMostLimit == sem.active <= sem.limit

\* C2 (SemSpec): waiters are woken in the order in which they were suspended,
\* and a release() wakes exactly one waiter, the first of the queue, when one
\* is waiting, and none otherwise.
C2_WakeOrderIsPrefix ==
  /\ Len(wakeOrder) <= Len(suspOrder)
  /\ \A i \in 1..Len(wakeOrder) : wakeOrder[i] = suspOrder[i]
C2_ReleaseWakesOne ==
  (\E c \in Clients : cpc[c] = "in" /\ cpc'[c] = "out") =>
     IF Len(sem.queue) > 0
     THEN /\ sem'.queue = Tail(sem.queue)
          /\ sem'.woken = Append(sem.woken, Head(sem.queue))
     ELSE /\ sem'.queue = sem.queue
          /\ sem'.woken = sem.woken
C2_SemFifo == []C2_WakeOrderIsPrefix /\ [][C2_ReleaseWakesOne]_vars

\* C2 witness: two callers were suspended and both were woken, the second
\* while the first had not resumed yet.
C2_Witness ==
  /\ Len(wakeOrder) >= 2
  /\ wakeOrder[1] # wakeOrder[2]
  /\ Len(sem.woken) = 2

\* C3 (Spec): concurrent or repeated start(id) calls never make the factory
\* produce a second connection while one is live: at most one live connection
\* per id exists, and a start(id) that returns a connection returns that one.
C3_StartIdempotent ==
  /\ \A id \in Ids : Cardinality(LiveConns(id)) <= 1
  /\ (last.act = "start" /\ last.ret = "conn") =>
        \A k \in LiveConns(last.id) : k = last.conn

\* C4 (Spec): every start that acquired a slot releases it exactly once,
\* whether the factory succeeded or failed: the active count is the number of
\* starts between acquire and release, it is 0 when no start is in flight, and
\* it never exceeds the configured concurrency.
C4_SlotsReleased ==
  /\ sem.active = Cardinality(Holders)
  /\ sem.active <= Concurrency
  /\ (InFlight = {} => sem.active = 0)
  /\ \A i \in 1..Len(sem.queue) : calls[sem.queue[i]].pc = "waiting"
  /\ \A c \in 1..MaxCalls : calls[c].pc = "waiting" => c \in Range(sem.queue)

\* C4 witness: a start whose factory call failed has just thrown, its slot went
\* to a start that was waiting for it.
C4_Witness ==
  /\ last.act = "start"
  /\ last.ret = "throw"
  /\ Cardinality(Holders) = 1
  /\ sem.active = 1
  /\ sem.queue = <<>>

\* isRunning(id) in the state a step leads to.
IsRunningNext(id) == ref'[id] # 0 /\ entries'[ref'[id]].sock # 0

\* C5 (Spec): when the factory fails inside start(id), the call fails (the
\* failure reaches the caller), isRunning(id) is false afterwards, and the
\* step takes no entry out of the registry.
C5_FailureStep ==
  \A c \in 1..MaxCalls :
    (calls[c].pc = "settleFail" /\ calls'[c].pc = "free") =>
       /\ last' = Returns("start", calls[c].id, "throw", 0)
       /\ ~IsRunningNext(calls[c].id)
       /\ ref' = ref
       /\ order' = order
C5_FactoryFailure == [][C5_FailureStep]_vars

RECURSIVE Pow2(_)
Pow2(n) == IF n = 0 THEN 1 ELSE 2 * Pow2(n - 1)

\* C6 (Spec): the delay of every scheduled reconnect is min(base * 2^n, cap),
\* n being the number of consecutive transient closes of the session with no
\* 'open' in between, counted without or with the close that schedules it; and
\* an 'open' resets the entry's backoff to base.
C6_BackoffSchedule ==
  /\ \A t \in timers :
       \/ t.delay = Min(DefaultBackoff * Pow2(t.n), MaxBackoff)
       \/ t.delay = Min(DefaultBackoff * Pow2(t.n + 1), MaxBackoff)
  /\ \A id \in Ids :
       (Event("connected", id, NoReason) \in last.emits /\ ref[id] # 0) =>
          entries[ref[id]].backoffMs = DefaultBackoff

\* C7 (Spec): a registered session that lost its connection to a transient
\* close and has none since always has a retry coming: a reconnect timer is
\* pending or a start(id) is in flight. (Where neither is, no step of the
\* manager ever attempts start(id) again.)
C7_RetryPending ==
  \A id \in Ids :
    (ref[id] # 0 /\ entries[ref[id]].lost /\ entries[ref[id]].sock = 0) =>
       \/ \E t \in timers : t.id = id
       \/ \E c \in 1..MaxCalls : calls[c].pc # "free" /\ calls[c].id = id

\* "forbidden" in lower and in upper case.
ForbiddenLower == <<"f","o","r","b","i","d","d","e","n">>
ForbiddenUpper == <<"F","O","R","B","I","D","D","E","N">>

\* Whether p contains "forbidden" with each letter in either case.
ContainsForbiddenAnyCase(p) ==
  \E i \in 0..(Len(p) - Len(ForbiddenLower)) :
    \A j \in 1..Len(ForbiddenLower) : p[i + j] \in {ForbiddenLower[j], ForbiddenUpper[j]}

\* C8 (ClassifySpec): a close with status code 401, whatever its payload
\* reason, and a close whose payload reason contains "forbidden" in any letter
\* case, is classified permanent, whatever the entry's restart guard is.
C8_PermanentByReason ==
  (/\ cout # "none"
   /\ cin.present
   /\ \/ cin.statusCode = 401
      \/ ContainsForbiddenAnyCase(cin.payloadReason))
  => cout = "permanent"

\* C8 witness: a close with another status code, a payload reason holding
\* "forbidden" in mixed case and the restart guard set was classified permanent.
C8_Witness ==
  /\ cout = "permanent"
  /\ cin.restarting
  /\ cin.statusCode = 428
  /\ cin.payloadReason = <<"x","-","F","o","r","B","i","d","D","e","n","!">>

\* C9 (Spec): on a permanent close of a registered id the entry is removed and
\* the id list is written without the id; when the write has settled
\* session.deleted is emitted with the reason; and from the removal until an
\* explicit register or start of the id, no reconnect for it is scheduled and
\* none is started.
C9_PermanentStep ==
  /\ \A h \in closing \ closing' :
       /\ ref'[h.id] = 0
       /\ h.id \notin Range(order')
       /\ \E w \in writes' : w.kind = "close" /\ w.id = h.id /\ w.list = order'
  /\ \A w \in writes \ writes' :
       w.kind = "close" => last'.emits = {Event("session.deleted", w.id, w.reason)}
  /\ \A t \in timers' \ timers : t.id \notin gone
  /\ \A t \in timers \ timers' : t.id \notin gone
C9_PermanentClose == [][C9_PermanentStep]_vars

\* C10 (Spec): logout(id) on a registered id removes the entry, writes the id
\* list without it, then emits loggedOut and returns true; logout(id) on an id
\* that is not registered returns false, emits nothing and changes nothing; and
\* no logout throws, also when the connection's own logout fails.
C10_LogoutStep ==
  /\ \A l \in 1..MaxLogouts :
       /\ (logouts[l].pc = "free" /\ logouts'[l].pc # "free") =>
             /\ logouts'[l].pc = "rm"
             /\ ref[logouts'[l].id] # 0
       /\ (logouts[l].pc = "rm" /\ logouts'[l].pc # "rm") =>
             /\ logouts'[l].pc = "persist"
             /\ ref'[logouts[l].id] = 0
             /\ logouts[l].id \notin Range(order')
             /\ \E w \in writes' \ writes : w.kind = "logout" /\ w.list = order'
       /\ (logouts[l].pc = "persist" /\ logouts'[l].pc # "persist") =>
             /\ logouts'[l].pc = "free"
             /\ last' = [Returns("logout", logouts[l].id, "true", 0) EXCEPT
                           !.emits = {Event("loggedOut", logouts[l].id, NoReason)}]
  /\ last'.act = "logout" => last'.ret \in {"true", "false"}
  /\ (last'.act = "logout" /\ last'.ret = "false") =>
        /\ ref[last'.id] = 0
        /\ last'.emits = {}
        /\ UNCHANGED <<sem, order, ref, entries, calls, conns, timers, closing, logouts,
                       writes, metaFile>>
C10_LogoutTerminal == [][C10_LogoutStep]_vars

\* C10 witness: the session had a connection and was removed by a logout; a
\* later logout of the same id has just returned false.
C10_Witness ==
  /\ last = Returns("logout", "a", "false", 0)
  /\ ref["a"] = 0
  /\ Len(entries) = 1
  /\ Len(conns) = 1
  /\ conns[1].cs = "closing"
  /\ entries[1].sock = 1
  /\ metaFile = <<>>
  /\ writes = {}

\* C11 (RegSpec): for every sequence of register calls and every completion
\* order of the writes of the id list, the persisted id list, as a set, equals
\* the registry's key set after each completed write; in particular once every
\* write has completed.
C11_PersistedEqualsRegistry ==
  writes = {} => Range(metaFile) = Range(order)

\* C12 (Spec): register(id) on an absent id creates an entry with status
\* 'stopped', no connection, backoff = base and the restart guard clear, as the
\* last key of the registry; on a registered id it changes nothing: the
\* entries, the key set and the key order stay as they are.
C12_RegisterStep ==
  last'.act = "register" =>
    IF ref[last'.id] = 0
    THEN /\ ref'[last'.id] \in 1..Len(entries')
         /\ entries'[ref'[last'.id]].status = "stopped"
         /\ entries'[ref'[last'.id]].sock = 0
         /\ entries'[ref'[last'.id]].backoffMs = DefaultBackoff
         /\ entries'[ref'[last'.id]].restarting = FALSE
         /\ order' = Append(order, last'.id)
         /\ \A j \in 1..Len(entries) : entries'[j] = entries[j]
         /\ \A o \in DOMAIN ref : o # last'.id => ref'[o] = ref[o]
    ELSE UNCHANGED <<order, ref, entries, conns, timers, writes, metaFile>>
C12_RegisterIdempotent == [][C12_RegisterStep]_vars

\* C12 witness: register was called on a session that is running, and the
\* session still holds its connection.
C12_Witness ==
  /\ last = Returns("register", "a", "void", 0)
  /\ IsRunning("a")
  /\ entries[ref["a"]].status = "connected"

\* C15 (Spec): stop(id) returns true exactly when the entry exists and holds a
\* connection; then the entry has no connection and status 'stopped'
\* afterwards, also when closing the transport throws. In every case the
\* registry's keys, the persisted id list, its pending writes and the entry's
\* backoff are unchanged, and a stop that returns false changes nothing.
C15_StopStep ==
  last'.act = "stop" =>
    /\ last'.ret \in {"true", "false"}
    /\ last'.ret = "true" <=> (ref[last'.id] # 0 /\ entries[ref[last'.id]].sock # 0)
    /\ last'.ret = "true" =>
          /\ entries'[ref[last'.id]].sock = 0
          /\ entries'[ref[last'.id]].status = "stopped"
          /\ entries'[ref[last'.id]].backoffMs = entries[ref[last'.id]].backoffMs
          /\ entries'[ref[last'.id]].restarting = entries[ref[last'.id]].restarting
          /\ \A j \in 1..Len(entries) : j # ref[last'.id] => entries'[j] = entries[j]
    /\ last'.ret = "false" => UNCHANGED <<entries, conns>>
    /\ UNCHANGED <<order, ref, metaFile, writes, timers, closing, calls, logouts, sem>>
C15_StopFrame == [][C15_StopStep]_vars

\* C15 witness: stop has returned true on a session whose transport threw on
\* close: the connection is still live and the entry no longer holds it.
C15_Witness ==
  /\ last = Returns("stop", "a", "true", 0)
  /\ Len(conns) = 1
  /\ Live(1)
  /\ entries[ref["a"]].sock = 0
  /\ entries[ref["a"]].status = "stopped"

\* The batch of the startAll() call that id belongs to: the keys it read, in
\* registry order, split into batches of size concurrency.
BatchOf(id) ==
  ((CHOOSE i \in 1..Len(sall.keys) : sall.keys[i] = id) - 1) \div sem.limit

\* C13 (AllSpec): no start of batch k+1 has begun (holds a slot or has called
\* the factory) while a start of batch k has not settled.
C13_BatchOrder ==
  \A c \in DOMAIN calls, d \in DOMAIN calls :
    (/\ calls[c].pc \in {"acquired", "creating", "settleOk", "settleFail"}
     /\ calls[d].pc # "free")
    => BatchOf(calls[d].id) >= BatchOf(calls[c].id)

\* C14 (AllSpec): startAll() attempts start(id) for every id registered when
\* it is called, and it does not fail, whatever the starts do.
C14_StartAllIsolation ==
  /\ sall.called => sall.ret # "throw"
  /\ last.act = "startAll" =>
        \A i \in 1..Len(sall.keys) :
          \E c \in DOMAIN calls : calls[c].pc # "free" /\ calls[c].id = sall.keys[i]

\* C16: a get(owner, key) issued right after set(owner, key, V) returns a value
\* deep-equal to V, for every owner id, key and stored value V.
C16_RoundTripStep ==
  (sres.op = "set" /\ sres'.op = "get" /\ sres'.user = sres.user /\ sres'.key = sres.key)
    => sres'.ret = sres.val
C16_StoreRoundTrip == [][C16_RoundTripStep]_vars

\* C17: when a maximum owner count is configured, the store never holds more
\* owners than that, after construction from any snapshot file and after any
\* sequence of set, get, getAll, delKey and delUser.
C17_OwnerBound == opts.maxUsers # 0 => Len(store) <= opts.maxUsers

\* C18: when a maximum number of keys per owner is configured, no owner ever
\* holds more keys than that, after construction from any snapshot file and
\* after any sequence of operations.
C18_KeyBound ==
  opts.maxKeysPerUser # 0 =>
    \A i \in 1..Len(store) : Len(store[i].keys) <= opts.maxKeysPerUser

\* The place of owner t in the recency order rec: 0 for an owner no get,
\* getAll or set has touched, which is older than every touched one.
TouchRank(rec, t) ==
  IF t \in Range(rec) THEN CHOOSE i \in 1..Len(rec) : rec[i] = t ELSE 0

\* C19: when a set for a new owner makes the owner count exceed the maximum,
\* the owners evicted are those whose most recent touch by get, getAll or set
\* is the oldest (no owner that stays was touched less recently than an
\* evicted one), and the owner being set is never evicted.
C19_VictimStep ==
  (sres'.op = "set" /\ sres'.evictedUsers # <<>>) =>
    LET t == ToStringId(sres'.user)
        stay == {store'[i].user : i \in 1..Len(store')} \ {t}
    IN  /\ t \notin Range(sres'.evictedUsers)
        /\ \A v \in Range(sres'.evictedUsers), s \in stay :
              TouchRank(recency, s) >= TouchRank(recency, v)
C19_LruVictim == [][C19_VictimStep]_vars

\* C20: when a set adds a key to an owner that already holds the maximum
\* number of keys, the one key evicted is the key inserted earliest for that
\* owner, whatever was overwritten or read since, the key just set is
\* retained with its value, and no other key of the owner is lost.
C20_KeyEvictionStep ==
  LET t == ToStringId(sres'.user)
      i == IndexOfUser(store, StrId(t))
      j == IndexOfUser(store', StrId(t))
      max == opts.maxKeysPerUser
      KeysOf(m) == {m[x].key : x \in 1..Len(m)}
  IN  (/\ sres'.op = "set"
       /\ max # 0
       /\ i # 0
       /\ Len(store[i].keys) = max
       /\ IndexOfKey(store[i].keys, sres'.key) = 0)
        => /\ sres'.evictedKeys = <<born[t][1]>>
           /\ j # 0
           /\ IndexOfKey(store'[j].keys, sres'.key) # 0
           /\ store'[j].keys[IndexOfKey(store'[j].keys, sres'.key)].val = sres'.val
           /\ KeysOf(store'[j].keys)
                = (KeysOf(store[i].keys) \ Range(sres'.evictedKeys)) \cup {sres'.key}
C20_KeyEviction == [][C20_KeyEvictionStep]_vars
\* Owner a held k1 and k2 under a limit of two keys, k3 was set: k1 was evicted.
C20_Witness ==
  /\ opts.maxKeysPerUser = 2
  /\ sres.op = "set" /\ sres.user = StrId("a") /\ sres.key = "k3"
  /\ sres.evictedKeys = <<"k1">>
  /\ \E i \in 1..Len(store) :
        /\ store[i].user = "a"
        /\ Len(store[i].keys) = 2
        /\ store[i].keys[1].key = "k2" /\ store[i].keys[2].key = "k3"

\* C21: every mutating call (set, effective delKey, effective delUser) cancels
\* the pending flush timer and starts a new one without writing, so at most
\* one timer is pending at any time; the timer that fires after a burst of
\* changes writes the store as it is after all of them, and no second write
\* follows until the next change.
C21_DebounceStep ==
  /\ Cardinality(pending') <= 1
  /\ flushed' <= 1
  /\ Mutating =>
        /\ writeTimer' # 0
        /\ pending' = {writeTimer'}
        /\ dirty'
        /\ file' = file
  /\ (sres'.op = "timer" /\ dirty /\ ~crashed' /\ sres'.emits # <<Emit("error", "", "")>>) =>
        /\ file' = CompleteFile(Contents(store'))
        /\ flushed' = 1
        /\ pending' = {}
        /\ ~dirty'
  /\ (sres'.op = "timer" /\ ~dirty) => file' = file
C21_DebounceCoalescing == [][C21_DebounceStep]_vars
\* Three changes were made in one burst and the timer wrote once, the final
\* content.
C21_Witness ==
  /\ burst = 3
  /\ flushed = 1
  /\ sres.op = "timer"
  /\ pending = {}
  /\ file = CompleteFile(Contents(store))
  /\ store # <<>>

\* Whether the snapshot file holds exactly the in-memory contents.
Persisted == file = CompleteFile(Contents(store))

\* C22: whenever the in-memory contents and the persisted snapshot differ, a
\* flush timer is pending (so that, with no further change, the timer fires
\* and the snapshot then equals the memory).
C22_UnsavedHasTimer == (Running /\ ~Persisted) => pending # {}

\* C23: after syncFlush() or close() returns without a write error, no
\* debounce timer is pending and the persisted snapshot equals the in-memory
\* contents, whatever preceded the call.
C23_ForcedFlushStep ==
  (/\ sres'.op \in {"syncFlush", "close"}
   /\ sres'.ret = UndefinedValue
   /\ sres'.emits # <<Emit("error", "", "")>>
   /\ ~crashed')
    => pending' = {} /\ file' = CompleteFile(Contents(store'))
C23_ForcedFlush == [][C23_ForcedFlushStep]_vars

\* C24: in atomic mode, when the process is interrupted at any point of a
\* flush, the real snapshot file, which existed before the flush, still
\* exists and holds the complete previous snapshot or the complete new one,
\* never a partial one.
C24_CrashStep ==
  (/\ opts.atomicWrite
   /\ sres'.op \in {"timer", "syncFlush", "close"}
   /\ ~crashed /\ crashed'
   /\ file.state = "complete")
    => file' \in {file, CompleteFile(Contents(store))}
C24_CrashSafety == [][C24_CrashStep]_vars
\* The process was interrupted in the middle of the temporary-file write of
\* a flush that had a change to write: the real file holds the old snapshot.
C24_Witness ==
  /\ opts.atomicWrite
  /\ crashed
  /\ dirty
  /\ tmpFile = PartialFile
  /\ file.state = "complete"
  /\ ~Persisted

\* The value stored for owner t under key k in st (null when there is none).
StoredAt(st, t, k) ==
  LET i == IndexOfUser(st, StrId(t))
      j == IF i = 0 THEN 0 ELSE IndexOfKey(st[i].keys, k)
  IN  IF j = 0 THEN NullValue ELSE st[i].keys[j].val

\* C25: under the deep-copy policy a change the caller makes to a value it got
\* from get changes nothing in the store (so neither what later gets return
\* nor what is flushed); under the direct-reference policy the value returned
\* is the stored object itself, so the change shows in the store; in both
\* cases get returns a value equal to the stored one, and the policy never
\* changes after construction.
C25_CopyStep ==
  /\ opts' = opts
  /\ (sres'.op = "mutate" /\ ~opts.returnDirectRef) =>
        store' = store /\ file' = file /\ ~held.shared
  /\ (sres'.op = "mutate" /\ held.shared) =>
        opts.returnDirectRef /\ StoredAt(store', held.user, held.key) = held'.val
  /\ (sres'.op = "get" /\ sres'.ret.kind = "object") =>
        /\ sres'.ret = StoredAt(store', ToStringId(sres'.user), sres'.key)
        /\ held'.shared = opts.returnDirectRef
C25_CopyOnRead == [][C25_CopyStep]_vars
\* Under the deep-copy policy the caller changed the value it had read: the
\* store still holds the original.
C25_Witness ==
  /\ ~opts.returnDirectRef
  /\ sres.op = "mutate"
  /\ held = [user |-> "a", key |-> "k1", val |-> ObjectValue(2), shared |-> FALSE]
  /\ StoredAt(store, "a", "k1") = ObjectValue(1)

\* C26: when a write of the id list settles, failed or not, the operation that
\* started it completes in the same way: logout returns true and emits
\* loggedOut, the permanent-close handling emits session.deleted with its
\* reason, register had already returned; the registry is as the operation
\* left it and nothing is raised to a caller. Only the file differs.
C26_PersistStep ==
  (writes' # writes /\ writes' \subseteq writes) =>
    LET w == CHOOSE x \in writes : x \notin writes'
    IN  /\ order' = order /\ ref' = ref /\ entries' = entries
        /\ last'.ret # "throw"
        /\ w.kind = "logout" =>
              /\ last'.act = "logout" /\ last'.id = w.id /\ last'.ret = "true"
              /\ last'.emits = {Event("loggedOut", w.id, NoReason)}
        /\ w.kind = "close" =>
              last'.emits = {Event("session.deleted", w.id, w.reason)}
        /\ w.kind = "register" => last' = NoLast
        /\ metaFile' \in {metaFile, w.list}
C26_PersistBestEffort == [][C26_PersistStep]_vars
\* The write of logout(a) failed (the file still lists a) and logout returned
\* true with its notification.
C26_Witness ==
  /\ last = [Returns("logout", "a", "true", 0) EXCEPT
               !.emits = {Event("loggedOut", "a", NoReason)}]
  /\ ref["a"] = 0
  /\ "a" \in Range(metaFile)
  /\ writes = {}

\* Whether the payload reason p contains sub when letter case is ignored.
ContainsAnyCase(p, sub) == Includes(ToLowerCase(p), sub)

\* C27 (ClassifySpec): a close of a registered id is classified permanent if
\* and only if its status code is 401 or its payload reason contains, in any
\* letter case, "loggedout", "logout" or "forbidden"; every other close is
\* classified transient (reconnect, or guarded when a restart is under way).
C27_FullClassification ==
  (cout # "none" /\ cin.present) =>
    (cout = "permanent" <=>
       \/ cin.statusCode = 401
       \/ ContainsAnyCase(cin.payloadReason, StrLoggedoutLower)
       \/ ContainsAnyCase(cin.payloadReason, StrLogout)
       \/ ContainsAnyCase(cin.payloadReason, StrForbidden))


\* The reconnect attempts of id that are in flight: the reconnect timers that
\* are pending and the start() calls a reconnect timer made that have not settled.
Attempts(id) ==
  Cardinality({t \in timers : t.id = id})
  + Cardinality({c \in DOMAIN calls : calls[c].pc # "free" /\ calls[c].tentry # 0
                                      /\ calls[c].id = id})

\* A step that schedules a reconnect timer for id.
SchedulesReconnect(id) == \E t \in timers' : t \notin timers /\ t.id = id

\* C28 (Spec): for each session at most one reconnect attempt is in flight at
\* any time, an attempt lasting from the scheduling of the reconnect timer
\* until the start(id) that the timer calls has settled; a close that arrives
\* while an attempt is in flight schedules no timer.
C28_RestartGuard ==
  /\ [](\A id \in Ids : Attempts(id) <= 1)
  /\ [][\A id \in Ids : SchedulesReconnect(id) => Attempts(id) = 0]_vars


\* C29 (Spec): when logout(id) or a permanent close has removed the entry
\* while a reconnect timer of id was pending, the start(id) that the timer runs
\* is a no-op: id is not registered again, no start() call that would invoke
\* the factory is begun, and no write of the id list is started.
C29_TimerStep ==
  \A t \in timers \ timers' :
    ref[t.id] = 0 =>
      /\ ref'[t.id] = 0
      /\ order' = order
      /\ calls' = calls
      /\ writes' = writes
C29_PendingReconnectNoOp == [][C29_TimerStep]_vars


\* The edges an entry's status may follow.
StatusEdges ==
  {<<"stopped", "starting">>, <<"starting", "connected">>,
   <<"connected", "reconnecting">>, <<"reconnecting", "starting">>,
   <<"connected", "stopping">>, <<"stopping", "stopped">>}

\* The values the status of entry e takes in a step, from the one before the
\* step to the one after it: stop() writes two values, every other handler one.
StatusPath(e) ==
  IF last'.act = "stop" /\ last'.ret = "true" /\ ref[last'.id] = e
  THEN <<entries[e].status>> \o StopStatuses
  ELSE <<entries[e].status, entries'[e].status>>

\* A step in which a connection of entry e's id reports a transient close.
TransientCloseOf(e) ==
  \E k \in 1..Len(conns) :
    /\ conns[k].cs # "closed" /\ conns'[k].cs = "closed"
    /\ ref[conns[k].id] = e
    /\ closing' = closing

\* C30 (Spec): an entry's status changes only along stopped->starting,
\* starting->connected, connected->reconnecting, reconnecting->starting,
\* connected->stopping and stopping->stopped; connected->reconnecting happens
\* only on a transient close; and an entry is removed only by a permanent close
\* or by logout.
C30_EntryStep ==
  /\ \A e \in 1..Len(entries) :
       /\ \A i \in 1..(Len(StatusPath(e)) - 1) :
            \/ StatusPath(e)[i] = StatusPath(e)[i + 1]
            \/ <<StatusPath(e)[i], StatusPath(e)[i + 1]>> \in StatusEdges
       /\ (entries[e].status = "connected" /\ entries'[e].status = "reconnecting")
            => TransientCloseOf(e)
  /\ \A id \in Ids :
       (ref[id] # 0 /\ ref'[id] = 0) =>
          \/ \E h \in closing \ closing' : h.id = id
          \/ \E l \in 1..MaxLogouts : logouts[l].pc = "rm" /\ logouts'[l].pc = "persist"
                                      /\ logouts[l].id = id
C30_EntryStateMachine == [][C30_EntryStep]_vars


\* Whether the store holds owner u (under the text of the id, as set() stores
\* it), and key under that owner.
OwnerExists(st, u) == IndexOfUser(st, StrId(ToStringId(u))) # 0
KeyExists(st, u, key) ==
  /\ OwnerExists(st, u)
  /\ IndexOfKey(st[IndexOfUser(st, StrId(ToStringId(u)))].keys, key) # 0

\* A flush was scheduled by the step: a new timer is pending and the store is dirty.
FlushScheduled == dirty' /\ writeTimer' \in pending' /\ writeTimer' # 0

\* C31 (StoreSpec): delKey and delUser return whether the target existed; when
\* it existed they remove it, schedule a flush and emit one notification, and
\* delKey also removes the owner whose last key it removed; when it did not
\* exist they return false, leave the store as it was, schedule nothing and
\* emit nothing.
C31_DeleteStep ==
  /\ sres'.op = "delKey" =>
       IF KeyExists(store, sres'.user, sres'.key)
       THEN /\ sres'.ret = BoolValue(TRUE)
            /\ ~KeyExists(store', sres'.user, sres'.key)
            /\ OwnerExists(store', sres'.user) =>
                 Len(store'[IndexOfUser(store', StrId(ToStringId(sres'.user)))].keys) > 0
            /\ FlushScheduled
            /\ sres'.emits = <<Emit("delKey", ToStringId(sres'.user), sres'.key)>>
       ELSE /\ sres'.ret = BoolValue(FALSE)
            /\ store' = store
            /\ UNCHANGED timerVars
            /\ sres'.emits = <<>>
  /\ sres'.op = "delUser" =>
       IF OwnerExists(store, sres'.user)
       THEN /\ sres'.ret = BoolValue(TRUE)
            /\ ~OwnerExists(store', sres'.user)
            /\ FlushScheduled
            /\ sres'.emits = <<Emit("delUser", ToStringId(sres'.user), "")>>
       ELSE /\ sres'.ret = BoolValue(FALSE)
            /\ store' = store
            /\ UNCHANGED timerVars
            /\ sres'.emits = <<>>
C31_StoreDeletes == [][C31_DeleteStep]_vars


\* C32 (Spec): when the start(id) that a reconnect timer runs fails, the
\* failure leaves no callback unhandled, the registry keeps its entries, the
\* entry the timer was scheduled for has its restart guard clear and its
\* backoff as it was (not reset), and a transient close of that entry would
\* schedule a reconnect.
C32_FailedStep ==
  \A c \in 1..MaxCalls :
    (calls[c].pc = "settleFail" /\ calls'[c].pc = "free" /\ calls[c].tentry # 0) =>
       /\ ~last'.unhandled
       /\ ref' = ref
       /\ order' = order
       /\ ~entries'[calls[c].tentry].restarting
       /\ entries'[calls[c].tentry].backoffMs = entries[calls[c].tentry].backoffMs
       /\ CloseBranch(TRUE, entries'[calls[c].tentry].restarting, Reason(428, NoReason))
            = "reconnect"
C32_FailedReconnect == [][C32_FailedStep]_vars

\* C32 witness: the only connection made was lost to a transient close, the
\* reconnect timer fired (the backoff is doubled) and the start it ran failed:
\* the entry is registered, its guard clear, its backoff still doubled.
C32_Witness ==
  /\ last = Returns("start", "a", "throw", 0)
  /\ Len(conns) = 1
  /\ conns[1].cs = "closed"
  /\ \A c \in 1..MaxCalls : calls[c].pc = "free"
  /\ timers = {}
  /\ ref["a"] # 0
  /\ ~entries[ref["a"]].restarting
  /\ entries[ref["a"]].backoffMs = 2 * DefaultBackoff


\* A step of a start(id) that a caller made: the call is made, or a call that
\* is in flight moves on.
CallerStartStep(id) ==
  \E c \in 1..MaxCalls :
    /\ calls'[c] # calls[c]
    /\ \/ calls[c].pc = "free" /\ calls'[c].tentry = 0 /\ calls'[c].id = id
       \/ calls[c].pc # "free" /\ calls[c].tentry = 0 /\ calls[c].id = id

\* C33 (Spec): once stop(id) has returned true, a step that is no part of a
\* caller's start(id) leaves the session stopped: isRunning(id) is false and
\* the status is 'stopped' afterwards, also when the step is the close event
\* of the transport that stop() closed.
C33_StopStep ==
  \A id \in Ids :
    (/\ last = Returns("stop", id, "true", 0)
     /\ ~CallerStartStep(id)
     /\ ref'[id] # 0) =>
       /\ ~IsRunningNext(id)
       /\ entries'[ref'[id]].status = "stopped"
C33_StopNotUndone == [][C33_StopStep]_vars


\* Connection k reports 'open' or 'close' in the step.
Reports(k) == conns'[k].cs # conns[k].cs /\ conns'[k].cs \in {"open", "closed"}

\* C34 (Spec): an 'open' or 'close' event of a connection that is not the
\* current connection of its id's entry (a newer one replaced it, or stop or a
\* transient close cleared the reference) changes neither the entry's
\* connection reference nor its status nor its backoff and schedules no
\* reconnect; so no entry loses a live current connection to the close of an
\* older one.
C34_StaleStep ==
  \A k \in 1..Len(conns) :
    (/\ Reports(k)
     /\ ref[conns[k].id] # 0
     /\ entries[ref[conns[k].id]].sock # k) =>
       LET e == ref[conns[k].id]
       IN  /\ entries'[e].sock = entries[e].sock
           /\ entries'[e].status = entries[e].status
           /\ entries'[e].backoffMs = entries[e].backoffMs
           /\ timers' = timers
C34_StaleEvents == [][C34_StaleStep]_vars


\* The start() calls on entry e that have passed acquire() and have not settled.
StartsInFlight(e) ==
  {c \in 1..MaxCalls : calls[c].entry = e /\ calls[c].pc \in {"creating", "settleOk", "settleFail"}}

\* C35 (Spec): in every state every registered entry holds a connection
\* reference exactly when its status is 'connected' or 'stopping', and an
\* entry whose status is 'starting' has a start() call that has not settled.
C35_StatusConsistency ==
  \A id \in Ids :
    ref[id] # 0 =>
      /\ entries[ref[id]].sock # 0 <=> entries[ref[id]].status \in {"connected", "stopping"}
      /\ entries[ref[id]].status = "starting" => StartsInFlight(ref[id]) # {}


\* C36 (AllSpec): for every registry content, when startAll() completes it
\* completes without raising an error, and at that moment no start that it
\* launched is still in flight.
C36_StartAllCompletes ==
  last.act = "startAll" =>
    /\ last.ret = "done"
    /\ \A c \in DOMAIN calls : calls[c].pc = "free"


\* C37 (SemFairSpec): when every holder eventually calls release(), every
\* caller that is suspended in acquire() is eventually admitted.
C37_SemProgress ==
  \A c \in Clients : (cpc[c] = "waiting") ~> (cpc[c] = "in")

\* C37 witness: a caller that was suspended in acquire() holds a slot.
C37_Witness ==
  \E c \in Clients : c \in Range(suspOrder) /\ cpc[c] = "in" /\ c \in Range(wakeOrder)

\* The consequence C37 draws for the manager (AllFairSpec): when every factory
\* call settles, every start() that waits for a slot reaches its factory call.
StartsProceed ==
  \A c \in 1..Len(AllIds) : (calls[c].pc = "waiting") ~> (calls[c].pc = "creating")


\* C38 (LoadSpec): for every interleaving of the constructor's load, the
\* register calls and the writes of the id list, once the load and every write
\* have completed the registry holds every id of the initial list (register
\* removes none, so it holds every registered id) and the persisted id list,
\* as a set, equals the registry's key set.
C38_LoadRegisterRace ==
  (~loadPending /\ writes = {}) =>
     /\ Range(LoadList) \subseteq Range(order)
     /\ Range(metaFile) = Range(order)


\* The [owner, key] pairs the store holds.
StoredPairs ==
  {p \in OwnerTexts \X StoreKeys :
     \E i \in 1..Len(store) : store[i].user = p[1] /\ IndexOfKey(store[i].keys, p[2]) # 0}

\* C39 (EmptyStoreSpec): in a store that started empty, after any sequence of
\* set, get, getAll, delKey and delUser every owner in the store holds at
\* least one key, and stats() returns the number of owners and the number of
\* [owner, key] pairs.
C39_NoEmptyOwner ==
  /\ \A i \in 1..Len(store) : Len(store[i].keys) >= 1
  /\ sres.op = "stats" =>
       sres.all = <<[key |-> "users",
                     val |-> NumberValue(Cardinality({store[i].user : i \in 1..Len(store)}))],
                    [key |-> "keys", val |-> NumberValue(Cardinality(StoredPairs))]>>

\* C39 witness: delKey removed the last key of an owner, the owner left the
\* store and another owner stays with its key.
C39_Witness ==
  /\ sres.op = "delKey"
  /\ sres.ret = BoolValue(TRUE)
  /\ ~OwnerExists(store, sres.user)
  /\ Len(store) = 1
  /\ Len(store[1].keys) = 1

====
